---- MODULE Spec2Model ----
\* A model of c-flow (flow.h): the Iterator view over a flat buffer, the
\* iter_* statement-expression macros, and the pipe / chain composition macros.
\*
\* Memory is modelled in cells: a buffer is a sequence of cells, an element of
\* a type T occupies sizeof(T) consecutive cells, and an Iterator is
\* (data pointer, len, elem_size) where the data pointer is a buffer id plus a
\* cell offset into it.
EXTENDS Integers, Sequences, FiniteSets, TLC

VARIABLES chain, pipe, heap, cur, last, ncalls

vars == <<chain, pipe, heap, cur, last, ncalls>>

\* ---------------------------------------------------------------- helpers

Range(s) == {s[i] : i \in DOMAIN s}

Min(a, b) == IF a < b THEN a ELSE b

SeqsUpTo(S, n) == UNION {[1..k -> S] : k \in 0..n}

\* ------------------------------------------------------------------ chain
\* chain(input, f1, ..., fn) is a variadic macro that picks one of the
\* fixed-arity macros CHAIN_2 .. CHAIN_10 by the position its name lands on in
\* GET_CHAIN_MACRO's parameter list, and then invokes it on the arguments.

\* The largest number of unary functions a CHAIN_k macro is written for.
MaxChainFns == 9

\* The position of NAME in GET_CHAIN_MACRO(_1, ..., _11, NAME, ...).
ChainNamePos == 12

\* The unary functions handed to chain (they do not commute).
ChainFns == {"inc", "dbl"}

ChainInputs == {1, 7}

ApplyFn(f, x) == IF f = "inc" THEN x + 1 ELSE 2 * x

\* The macro names chain() appends to its arguments, in the order written.
ChainNames ==
    << "CHAIN_10", "CHAIN_9", "CHAIN_8", "CHAIN_7", "CHAIN_6",
       "CHAIN_5", "CHAIN_4", "CHAIN_3", "CHAIN_2" >>

\* Each CHAIN_k as written: the number of parameters it declares, and the
\* parameter positions its body calls, innermost call first (parameter 1 is
\* the input).
ChainMacro(name) ==
    CASE name = "CHAIN_2"  -> [params |-> 2,  calls |-> <<2>>]
      [] name = "CHAIN_3"  -> [params |-> 3,  calls |-> <<2, 3>>]
      [] name = "CHAIN_4"  -> [params |-> 5,  calls |-> <<2, 3, 4, 5>>]
      [] name = "CHAIN_5"  -> [params |-> 5,  calls |-> <<2, 3, 4, 5>>]
      [] name = "CHAIN_6"  -> [params |-> 6,  calls |-> <<2, 3, 4, 5, 6>>]
      [] name = "CHAIN_7"  -> [params |-> 7,  calls |-> <<2, 3, 4, 5, 6, 7>>]
      [] name = "CHAIN_8"  -> [params |-> 8,  calls |-> <<2, 3, 4, 5, 6, 7, 8>>]
      [] name = "CHAIN_9"  -> [params |-> 9,  calls |-> <<2, 3, 4, 5, 6, 7, 8, 9>>]
      [] name = "CHAIN_10" -> [params |-> 10, calls |-> <<2, 3, 4, 5, 6, 7, 8, 9, 10>>]

\* GET_CHAIN_MACRO(...) expands to its 12th argument; with fewer arguments
\* than its named parameters the invocation is ill-formed.
GET_CHAIN_MACRO(list) ==
    IF Len(list) < ChainNamePos THEN "ill_formed" ELSE list[ChainNamePos]

\* The expansion of chain(args): the selected macro applied to args, or a
\* compile error when the selected name is no CHAIN_k macro or the macro does
\* not take Len(args) arguments.
ChainExpansion(args) ==
    LET name == GET_CHAIN_MACRO(args \o ChainNames)
    IN  IF name \notin Range(ChainNames)
        THEN [ok |-> FALSE, name |-> name, calls |-> <<>>]
        ELSE IF ChainMacro(name).params # Len(args)
        THEN [ok |-> FALSE, name |-> name, calls |-> <<>>]
        ELSE [ok |-> TRUE, name |-> name, calls |-> ChainMacro(name).calls]

ChainIdle ==
    [pc |-> "idle", args |-> <<>>, name |-> "", todo |-> <<>>, val |-> 0, applied |-> <<>>]

\* Preprocessing: the call site is replaced by the selected macro's body.
ChainExpand ==
    /\ chain.pc = "start"
    /\ LET e == ChainExpansion(chain.args)
       IN  chain' = IF e.ok
                    THEN [chain EXCEPT !.pc = "eval", !.name = e.name,
                                       !.todo = e.calls, !.val = chain.args[1]]
                    ELSE [chain EXCEPT !.pc = "compile_error", !.name = e.name]
    /\ UNCHANGED <<pipe, heap, cur, last, ncalls>>

\* Evaluation of the nested call expression: the innermost pending call runs.
ChainCall ==
    /\ chain.pc = "eval"
    /\ chain.todo # <<>>
    /\ LET p == Head(chain.todo)
       IN  chain' = [chain EXCEPT
                        !.val = ApplyFn(chain.args[p], chain.val),
                        !.applied = Append(chain.applied, p - 1),
                        !.todo = Tail(chain.todo),
                        !.pc = IF Len(chain.todo) = 1 THEN "done" ELSE "eval"]
    /\ UNCHANGED <<pipe, heap, cur, last, ncalls>>

ChainNext == ChainExpand \/ ChainCall

\* ------------------------------------------------------------------- pipe
\* pipe(init, s1, ..., sn) picks PIPE_STEP_n the same way; PIPE_STEP_n
\* declares the placeholder from init and assigns it each step in turn.

\* The largest number of steps a PIPE_STEP_n macro is written for.
MaxPipeSteps == 10

\* The position of NAME in GET_PIPE_MACRO(_1, ..., _11, NAME, ...).
PipeNamePos == 12

\* Step lists are a base list of at most MaxBase steps, repeated cyclically.
MaxBase == 4

\* Step expressions written with the placeholder, as in example.c.
StepExprs == {"sub(4,_)", "mul(5,_)", "sub(_,1)", "add(_,_)"}

PipeInits == {5, 2}

EvalStep(s, x) ==
    CASE s = "sub(4,_)" -> 4 - x
      [] s = "mul(5,_)" -> 5 * x
      [] s = "sub(_,1)" -> x - 1
      [] s = "add(_,_)" -> x + x

PipeNames ==
    << "PIPE_STEP_10", "PIPE_STEP_9", "PIPE_STEP_8", "PIPE_STEP_7", "PIPE_STEP_6",
       "PIPE_STEP_5", "PIPE_STEP_4", "PIPE_STEP_3", "PIPE_STEP_2", "PIPE_STEP_1" >>

\* Each PIPE_STEP_n as written: the number of parameters, and the parameter
\* positions assigned to the placeholder, in statement order (parameter 1 is
\* init, which initialises the placeholder).
PipeMacro(name) ==
    CASE name = "PIPE_STEP_1"  -> [params |-> 2,  stmts |-> <<1, 2>>]
      [] name = "PIPE_STEP_2"  -> [params |-> 3,  stmts |-> <<1, 2, 3>>]
      [] name = "PIPE_STEP_3"  -> [params |-> 4,  stmts |-> <<1, 2, 3, 4>>]
      [] name = "PIPE_STEP_4"  -> [params |-> 5,  stmts |-> <<1, 2, 3, 4, 5>>]
      [] name = "PIPE_STEP_5"  -> [params |-> 6,  stmts |-> <<1, 2, 3, 4, 5, 6>>]
      [] name = "PIPE_STEP_6"  -> [params |-> 7,  stmts |-> <<1, 2, 3, 4, 5, 6, 7>>]
      [] name = "PIPE_STEP_7"  -> [params |-> 8,  stmts |-> <<1, 2, 3, 4, 5, 6, 7, 8>>]
      [] name = "PIPE_STEP_8"  -> [params |-> 9,  stmts |-> <<1, 2, 3, 4, 5, 6, 7, 8, 9>>]
      [] name = "PIPE_STEP_9"  -> [params |-> 10, stmts |-> <<1, 2, 3, 4, 5, 6, 7, 8, 9, 10>>]
      [] name = "PIPE_STEP_10" -> [params |-> 11, stmts |-> <<1, 2, 3, 4, 5, 6, 7, 8, 9, 10, 11>>]

\* The same selection with NAME one parameter later.
GET_PIPE_MACRO_Late(list) ==
    IF Len(list) < PipeNamePos + 1 THEN "ill_formed" ELSE list[PipeNamePos + 1]

GET_PIPE_MACRO(list) ==
    IF Len(list) < PipeNamePos THEN "ill_formed" ELSE list[PipeNamePos]

PipeExpansion(args) ==
    LET name == GET_PIPE_MACRO(args \o PipeNames)
    IN  IF name \notin Range(PipeNames)
        THEN [ok |-> FALSE, name |-> name, stmts |-> <<>>]
        ELSE IF PipeMacro(name).params # Len(args)
        THEN [ok |-> FALSE, name |-> name, stmts |-> <<>>]
        ELSE [ok |-> TRUE, name |-> name, stmts |-> PipeMacro(name).stmts]

\* The step list of length n that repeats base cyclically.
Cyclic(base, n) == [i \in 1..n |-> base[((i - 1) % Len(base)) + 1]]

PipeIdle ==
    [pc |-> "idle", init |-> 0, steps |-> <<>>, name |-> "", todo |-> <<>>,
     ph |-> 0, evals |-> <<>>]

PipeExpand ==
    /\ pipe.pc = "start"
    /\ LET e == PipeExpansion(<<"init">> \o pipe.steps)
       IN  pipe' = IF e.ok
                   THEN [pipe EXCEPT !.pc = "eval", !.name = e.name, !.todo = e.stmts]
                   ELSE [pipe EXCEPT !.pc = "compile_error", !.name = e.name]
    /\ UNCHANGED <<chain, heap, cur, last, ncalls>>

\* One statement of the expansion: the declaration evaluates init, an
\* assignment evaluates its step with the placeholder as it stands. Each
\* evaluation is recorded with the placeholder value it saw and its result.
PipeStmt ==
    /\ pipe.pc = "eval"
    /\ pipe.todo # <<>>
    /\ LET p == Head(pipe.todo)
           v == IF p = 1 THEN pipe.init ELSE EvalStep(pipe.steps[p - 1], pipe.ph)
       IN  pipe' = [pipe EXCEPT
                       !.ph = v,
                       !.evals = Append(pipe.evals, [arg |-> p - 1, saw |-> pipe.ph, got |-> v]),
                       !.todo = Tail(pipe.todo),
                       !.pc = IF Len(pipe.todo) = 1 THEN "done" ELSE "eval"]
    /\ UNCHANGED <<chain, heap, cur, last, ncalls>>

PipeNext == PipeExpand \/ PipeStmt

\* ------------------------------------------------------------- memory
\* Lengths and sizes are size_t. TLC's integers are 32 bits wide, so size_t
\* is modelled as an unsigned type of SizeBits bits; all that the code relies
\* on is that it is unsigned and wider than any length that occurs.
SizeModulus == 2 ^ 16

\* The conversion of a (possibly negative) integer argument to size_t.
ToSizeT(x) == x % SizeModulus

\* The largest array the program declares, in cells.
MaxLen == 2

\* Cell values of the program's arrays are 0..MaxVal.
MaxVal == 1

\* The number of library calls the program makes.
MaxCalls == 2

Cell == 0..MaxVal

\* The content of a cell malloc returned and nothing has written yet: a value
\* below every array cell and every result of a caller's expression.
Uninit == 0 - SizeModulus

\* What a load outside every buffer is recorded as.
Wild == Uninit - 1

Types == {"int", "pair"}

\* sizeof, in cells: an int is one cell, a struct of two ints is two, and an
\* Iterator is three (data, len, elem_size).
sizeof(type) == IF type = "int" THEN 1 ELSE IF type = "pair" THEN 2 ELSE 3

\* int arr2[] = {1, 2, 2, 3, 4}; of example.c.
arr2 == <<1, 2, 2, 3, 4>>

Ptr(b, o) == [buf |-> b, off |-> o]

\* (char*)p + n
PtrAdd(p, n) == [p EXCEPT !.off = @ + n]

Iterator(data, len, elem_size) == [data |-> data, len |-> len, elem_size |-> elem_size]

\* The n cells at p; a cell outside p's buffer reads as Wild.
Load(h, p, n) ==
    [k \in 1..n |->
        IF p.off + k \in 1..h[p.buf].cap THEN h[p.buf].cells[p.off + k] ELSE Wild]

\* The heap with the cells of e written at p (a write outside p's buffer is
\* not recorded).
Store(h, p, e) ==
    [h EXCEPT ![p.buf].cells =
        [i \in 1..h[p.buf].cap |->
            IF i - p.off \in 1..Len(e) THEN e[i - p.off] ELSE @[i]]]

\* malloc(n) is taken to succeed: a new buffer of n uninitialised cells.
malloc(h, n) ==
    [heap |-> Append(h, [kind |-> "malloc", cap |-> n, cells |-> [i \in 1..n |-> Uninit]]),
     ptr  |-> Ptr(Len(h) + 1, 0)]

memcpy(h, dst, src, n) == Store(h, dst, Load(h, src, n))

memcmp(h, p, q, n) == IF Load(h, p, n) = Load(h, q, n) THEN 0 ELSE 1

\* ((type*)it.data)[i]
ElemAt(h, it, type, i) == Load(h, PtrAdd(it.data, i * sizeof(type)), sizeof(type))

\* to_iter(arr) for the array in buffer b, declared with element type `type`.
to_iter(h, b, type) ==
    Iterator(Ptr(b, 0), h[b].cap \div sizeof(type), sizeof(type))

\* ---------------------------------------------------- caller's expressions
\* The expressions a caller hands to the macros, over elements (tuples of
\* cells): mapping expressions with their element types, and predicates.
Funcs == {"inc", "dup", "fst", "swap"}

FnIn(f) == IF f \in {"inc", "dup"} THEN "int" ELSE "pair"

FnOut(f) == IF f \in {"inc", "fst"} THEN "int" ELSE "pair"

ApplyF(f, x) ==
    CASE f = "inc"  -> <<(x[1] + 1) % (MaxVal + 1)>>
      [] f = "dup"  -> <<x[1], x[1]>>
      [] f = "fst"  -> <<x[1]>>
      [] f = "swap" -> <<x[2], x[1]>>

Preds == {"nz", "lastz", "any"}

Holds(p, x) ==
    CASE p = "nz"    -> x[1] # 0
      [] p = "lastz" -> x[Len(x)] = 0
      [] p = "any"   -> TRUE

\* ------------------------------------------------------------ iter_* macros
\* Each macro is an operator from the heap and its arguments to the heap
\* after the call, the views it yields and the element indices at which it
\* evaluated the caller's expression, in order.

\* The loop of iter_map from index i on.
RECURSIVE map_loop(_, _, _, _, _, _, _, _)
map_loop(h, it, out, in_type, out_type, f, i, evals) ==
    IF ~(i < it.len) THEN [heap |-> h, evals |-> evals]
    ELSE LET x == ElemAt(h, it, in_type, i)
         IN  map_loop(Store(h, PtrAdd(out, i * sizeof(out_type)), ApplyF(f, x)),
                      it, out, in_type, out_type, f, i + 1, Append(evals, i))

\* iter_map with its loop started at index 1.
iter_map_SkipFirst(h, it, in_type, out_type, f) ==
    LET m == malloc(h, it.len * sizeof(out_type))
        r == map_loop(m.heap, it, m.ptr, in_type, out_type, f, 1, <<>>)
    IN  [heap |-> r.heap,
         out  |-> <<Iterator(m.ptr, it.len, sizeof(out_type))>>,
         evals |-> r.evals]

iter_map(h, it, in_type, out_type, f) ==
    LET m == malloc(h, it.len * sizeof(out_type))
        r == map_loop(m.heap, it, m.ptr, in_type, out_type, f, 0, <<>>)
    IN  [heap |-> r.heap,
         out  |-> <<Iterator(m.ptr, it.len, sizeof(out_type))>>,
         evals |-> r.evals]

\* iter_slice that always starts at the first element.
iter_slice_FromZero(h, it, start, end) ==
    LET e == IF ToSizeT(end) < it.len THEN ToSizeT(end) ELSE it.len
    IN  [heap |-> h,
         out  |-> <<Iterator(it.data, e, it.elem_size)>>,
         evals |-> <<>>]

\* iter_slice with end not limited to the length.
iter_slice_EndUnchecked(h, it, start, end) ==
    LET s == IF ToSizeT(start) < it.len THEN ToSizeT(start) ELSE it.len
        e == ToSizeT(end)
    IN  [heap |-> h,
         out  |-> <<Iterator(PtrAdd(it.data, s * it.elem_size),
                             IF e > s THEN e - s ELSE 0, it.elem_size)>>,
         evals |-> <<>>]

iter_slice(h, it, start, end) ==
    LET s == IF ToSizeT(start) < it.len THEN ToSizeT(start) ELSE it.len
        e == IF ToSizeT(end) < it.len THEN ToSizeT(end) ELSE it.len
    IN  [heap |-> h,
         out  |-> <<Iterator(PtrAdd(it.data, s * it.elem_size),
                             IF e > s THEN e - s ELSE 0, it.elem_size)>>,
         evals |-> <<>>]

\* The loop of iter_filter from index i on, with count elements kept so far.
RECURSIVE filter_loop(_, _, _, _, _, _, _, _)
filter_loop(h, it, out, type, pred, i, count, evals) ==
    IF ~(i < it.len) THEN [heap |-> h, count |-> count, evals |-> evals]
    ELSE LET x == ElemAt(h, it, type, i)
         IN  IF Holds(pred, x)
             THEN filter_loop(Store(h, PtrAdd(out, count * sizeof(type)), x),
                              it, out, type, pred, i + 1, count + 1, Append(evals, i))
             ELSE filter_loop(h, it, out, type, pred, i + 1, count, Append(evals, i))

\* The loop of iter_filter storing at the input index, _out[_i] = x.
RECURSIVE filter_loop_AtIndex(_, _, _, _, _, _, _, _)
filter_loop_AtIndex(h, it, out, type, pred, i, count, evals) ==
    IF ~(i < it.len) THEN [heap |-> h, count |-> count, evals |-> evals]
    ELSE LET x == ElemAt(h, it, type, i)
         IN  IF Holds(pred, x)
             THEN filter_loop_AtIndex(Store(h, PtrAdd(out, i * sizeof(type)), x),
                                      it, out, type, pred, i + 1, count + 1, Append(evals, i))
             ELSE filter_loop_AtIndex(h, it, out, type, pred, i + 1, count, Append(evals, i))

iter_filter_AtIndex(h, it, type, pred) ==
    LET m == malloc(h, it.len * sizeof(type))
        r == filter_loop_AtIndex(m.heap, it, m.ptr, type, pred, 0, 0, <<>>)
    IN  [heap |-> r.heap,
         out  |-> <<Iterator(m.ptr, r.count, sizeof(type))>>,
         evals |-> r.evals]

\* iter_filter with malloc(_it.len), the element size forgotten.
iter_filter_NoSizeof(h, it, type, pred) ==
    LET m == malloc(h, it.len)
        r == filter_loop(m.heap, it, m.ptr, type, pred, 0, 0, <<>>)
    IN  [heap |-> r.heap,
         out  |-> <<Iterator(m.ptr, r.count, sizeof(type))>>,
         evals |-> r.evals]

iter_filter(h, it, type, pred) ==
    LET m == malloc(h, it.len * sizeof(type))
        r == filter_loop(m.heap, it, m.ptr, type, pred, 0, 0, <<>>)
    IN  [heap |-> r.heap,
         out  |-> <<Iterator(m.ptr, r.count, sizeof(type))>>,
         evals |-> r.evals]

\* iter_take with n not limited to the length.
iter_take_Unchecked(h, it, n) ==
    [heap |-> h,
     out  |-> <<Iterator(it.data, ToSizeT(n), it.elem_size)>>,
     evals |-> <<>>]

iter_take(h, it, n) ==
    LET c == IF ToSizeT(n) < it.len THEN ToSizeT(n) ELSE it.len
    IN  [heap |-> h,
         out  |-> <<Iterator(it.data, c, it.elem_size)>>,
         evals |-> <<>>]

iter_drop(h, it, n) ==
    LET c == IF ToSizeT(n) < it.len THEN ToSizeT(n) ELSE it.len
    IN  [heap |-> h,
         out  |-> <<Iterator(PtrAdd(it.data, c * it.elem_size), it.len - c, it.elem_size)>>,
         evals |-> <<>>]

\* The loop of iter_reverse from index i on.
RECURSIVE reverse_loop(_, _, _, _)
reverse_loop(h, it, out, i) ==
    IF ~(i < it.len) THEN h
    ELSE reverse_loop(memcpy(h, PtrAdd(out, i * it.elem_size),
                             PtrAdd(it.data, (it.len - 1 - i) * it.elem_size),
                             it.elem_size),
                      it, out, i + 1)

\* iter_reverse that reverses the input's storage in place and yields the
\* input view.
iter_reverse_InPlace(h, it) ==
    LET m == malloc(h, it.len * it.elem_size)
        t == reverse_loop(m.heap, it, m.ptr, 0)
    IN  [heap |-> SubSeq(memcpy(t, it.data, m.ptr, it.len * it.elem_size), 1, Len(h)),
         out  |-> <<it>>,
         evals |-> <<>>]

\* iter_reverse copying cell by cell: len * elem_size elements of one cell.
iter_reverse_Cells(h, it) ==
    LET m == malloc(h, it.len * it.elem_size)
        c == Iterator(it.data, it.len * it.elem_size, 1)
    IN  [heap |-> reverse_loop(m.heap, c, m.ptr, 0),
         out  |-> <<Iterator(m.ptr, it.len, it.elem_size)>>,
         evals |-> <<>>]

iter_reverse(h, it) ==
    LET m == malloc(h, it.len * it.elem_size)
    IN  [heap |-> reverse_loop(m.heap, it, m.ptr, 0),
         out  |-> <<Iterator(m.ptr, it.len, it.elem_size)>>,
         evals |-> <<>>]

\* The inner loop of iter_unique leaving after its first comparison.
unique_found_FirstOnly(h, it, out, i, j, count) ==
    IF ~(j < count) THEN 0
    ELSE IF memcmp(h, PtrAdd(it.data, i * it.elem_size),
                   PtrAdd(out, j * it.elem_size), it.elem_size) = 0
         THEN 1
         ELSE 0

\* The inner loop of iter_unique: 1 when element i of the input equals one of
\* the first count elements of the output, searching from j on.
RECURSIVE unique_found(_, _, _, _, _, _)
unique_found(h, it, out, i, j, count) ==
    IF ~(j < count) THEN 0
    ELSE IF memcmp(h, PtrAdd(it.data, i * it.elem_size),
                   PtrAdd(out, j * it.elem_size), it.elem_size) = 0
         THEN 1
         ELSE unique_found(h, it, out, i, j + 1, count)

\* The outer loop of iter_unique from index i on.
RECURSIVE unique_loop(_, _, _, _, _)
unique_loop(h, it, out, i, count) ==
    IF ~(i < it.len) THEN [heap |-> h, count |-> count]
    ELSE IF unique_found(h, it, out, i, 0, count) = 0
         THEN unique_loop(memcpy(h, PtrAdd(out, count * it.elem_size),
                                 PtrAdd(it.data, i * it.elem_size), it.elem_size),
                          it, out, i + 1, count + 1)
         ELSE unique_loop(h, it, out, i + 1, count)

iter_unique(h, it) ==
    LET m == malloc(h, it.len * it.elem_size)
        r == unique_loop(m.heap, it, m.ptr, 0, 0)
    IN  [heap |-> r.heap,
         out  |-> <<Iterator(m.ptr, r.count, it.elem_size)>>,
         evals |-> <<>>]

\* The loop of iter_partition from index i on, with y and n elements placed.
RECURSIVE partition_loop(_, _, _, _, _, _, _, _, _, _)
partition_loop(h, it, yes, no, type, pred, i, y, n, evals) ==
    IF ~(i < it.len) THEN [heap |-> h, y |-> y, n |-> n, evals |-> evals]
    ELSE LET x == ElemAt(h, it, type, i)
         IN  IF Holds(pred, x)
             THEN partition_loop(Store(h, PtrAdd(yes, y * sizeof(type)), x),
                                 it, yes, no, type, pred, i + 1, y + 1, n, Append(evals, i))
             ELSE partition_loop(Store(h, PtrAdd(no, n * sizeof(type)), x),
                                 it, yes, no, type, pred, i + 1, y, n + 1, Append(evals, i))

\* The loop of iter_partition with the else missing: every element goes to no.
RECURSIVE partition_loop_NoElse(_, _, _, _, _, _, _, _, _, _)
partition_loop_NoElse(h, it, yes, no, type, pred, i, y, n, evals) ==
    IF ~(i < it.len) THEN [heap |-> h, y |-> y, n |-> n, evals |-> evals]
    ELSE LET x  == ElemAt(h, it, type, i)
             hn == Store(h, PtrAdd(no, n * sizeof(type)), x)
         IN  IF Holds(pred, x)
             THEN partition_loop_NoElse(Store(hn, PtrAdd(yes, y * sizeof(type)), x),
                                        it, yes, no, type, pred, i + 1, y + 1, n + 1,
                                        Append(evals, i))
             ELSE partition_loop_NoElse(hn, it, yes, no, type, pred, i + 1, y, n + 1,
                                        Append(evals, i))

iter_partition_NoElse(h, it, type, pred) ==
    LET my == malloc(h, it.len * sizeof(type))
        mn == malloc(my.heap, it.len * sizeof(type))
        r  == partition_loop_NoElse(mn.heap, it, my.ptr, mn.ptr, type, pred, 0, 0, 0, <<>>)
    IN  [heap |-> r.heap,
         out  |-> <<Iterator(my.ptr, r.y, sizeof(type)), Iterator(mn.ptr, r.n, sizeof(type))>>,
         evals |-> r.evals]

\* The views are <<yes, no>>.
iter_partition(h, it, type, pred) ==
    LET my == malloc(h, it.len * sizeof(type))
        mn == malloc(my.heap, it.len * sizeof(type))
        r  == partition_loop(mn.heap, it, my.ptr, mn.ptr, type, pred, 0, 0, 0, <<>>)
    IN  [heap |-> r.heap,
         out  |-> <<Iterator(my.ptr, r.y, sizeof(type)), Iterator(mn.ptr, r.n, sizeof(type))>>,
         evals |-> r.evals]

\* iter_concat that releases the first view's buffer after copying from it
\* when that buffer came from malloc (as a realloc-style append would).
iter_concat_ReleasesFirst(h, a, b) ==
    LET m  == malloc(h, (a.len + b.len) * a.elem_size)
        h1 == memcpy(m.heap, m.ptr, a.data, a.len * a.elem_size)
        h2 == memcpy(h1, PtrAdd(m.ptr, a.len * a.elem_size), b.data, b.len * b.elem_size)
    IN  [heap |-> IF h2[a.data.buf].kind = "malloc"
                  THEN [h2 EXCEPT ![a.data.buf].kind = "freed"] ELSE h2,
         out  |-> <<Iterator(m.ptr, a.len + b.len, a.elem_size)>>,
         evals |-> <<>>]

\* iter_concat with the second copy placed after len(b) elements.
iter_concat_AfterB(h, a, b) ==
    LET m  == malloc(h, (a.len + b.len) * a.elem_size)
        h1 == memcpy(m.heap, m.ptr, a.data, a.len * a.elem_size)
        h2 == memcpy(h1, PtrAdd(m.ptr, b.len * a.elem_size), b.data, b.len * b.elem_size)
    IN  [heap |-> h2,
         out  |-> <<Iterator(m.ptr, a.len + b.len, a.elem_size)>>,
         evals |-> <<>>]

\* reads and writes list the source and destination ranges of the two memcpy
\* calls, as (pointer, number of cells).
iter_concat(h, a, b) ==
    LET m  == malloc(h, (a.len + b.len) * a.elem_size)
        h1 == memcpy(m.heap, m.ptr, a.data, a.len * a.elem_size)
        h2 == memcpy(h1, PtrAdd(m.ptr, a.len * a.elem_size), b.data, b.len * b.elem_size)
    IN  [heap |-> h2,
         out  |-> <<Iterator(m.ptr, a.len + b.len, a.elem_size)>>,
         evals |-> <<>>,
         reads |-> <<[p |-> a.data, n |-> a.len * a.elem_size],
                     [p |-> b.data, n |-> b.len * b.elem_size]>>,
         writes |-> <<[p |-> m.ptr, n |-> a.len * a.elem_size],
                      [p |-> PtrAdd(m.ptr, a.len * a.elem_size), n |-> b.len * b.elem_size]>>]

\* The first loop of _iter_pad_ptr from index i on: the input's elements.
RECURSIVE pad_copy_loop(_, _, _, _, _)
pad_copy_loop(h, it, out, n, i) ==
    IF ~(i < it.len /\ i < n) THEN [heap |-> h, i |-> i]
    ELSE pad_copy_loop(memcpy(h, PtrAdd(out, i * it.elem_size),
                              PtrAdd(it.data, i * it.elem_size), it.elem_size),
                       it, out, n, i + 1)

\* The second loop of _iter_pad_ptr from index i on: the pad value, which
\* lies in buffer padptr points to.
RECURSIVE pad_fill_loop(_, _, _, _, _, _)
pad_fill_loop(h, it, out, n, padptr, i) ==
    IF ~(i < n) THEN h
    ELSE pad_fill_loop(memcpy(h, PtrAdd(out, i * it.elem_size), padptr, it.elem_size),
                       it, out, n, padptr, i + 1)

_iter_pad_ptr(h, it, newlen, padptr) ==
    LET n == ToSizeT(newlen)
        m == malloc(h, n * it.elem_size)
        c == pad_copy_loop(m.heap, it, m.ptr, n, 0)
    IN  [heap |-> pad_fill_loop(c.heap, it, m.ptr, n, padptr, c.i),
         out  |-> <<Iterator(m.ptr, n, it.elem_size)>>,
         evals |-> <<>>]

\* iter_pad that returns the input's length when newlen is smaller.
iter_pad_AtLeastLen(h, it, newlen, padval) ==
    LET local == Append(h, [kind |-> "local", cap |-> Len(padval), cells |-> padval])
        r     == _iter_pad_ptr(local, it, IF newlen < it.len THEN it.len ELSE newlen,
                               Ptr(Len(local), 0))
    IN  r

\* iter_pad: the pad value is copied into the local _padval, whose address
\* is handed on. The local is a buffer of its own in the model's heap.
iter_pad(h, it, newlen, padval) ==
    LET local == Append(h, [kind |-> "local", cap |-> Len(padval), cells |-> padval])
        r     == _iter_pad_ptr(local, it, newlen, Ptr(Len(local), 0))
    IN  r

\* The loop of iter_repeat from copy i on.
RECURSIVE repeat_loop(_, _, _, _, _)
repeat_loop(h, it, out, t, i) ==
    IF ~(i < t) THEN h
    ELSE repeat_loop(memcpy(h, PtrAdd(out, i * it.len * it.elem_size), it.data,
                            it.len * it.elem_size),
                     it, out, t, i + 1)

\* iter_repeat whose loop leaves after the first copy.
iter_repeat_OneCopy(h, it, times) ==
    LET t == ToSizeT(times)
        m == malloc(h, it.len * t * it.elem_size)
    IN  [heap |-> repeat_loop(m.heap, it, m.ptr, IF t > 1 THEN 1 ELSE t, 0),
         out  |-> <<Iterator(m.ptr, it.len * t, it.elem_size)>>,
         evals |-> <<>>]

iter_repeat(h, it, times) ==
    LET t == ToSizeT(times)
        m == malloc(h, it.len * t * it.elem_size)
    IN  [heap |-> repeat_loop(m.heap, it, m.ptr, t, 0),
         out  |-> <<Iterator(m.ptr, it.len * t, it.elem_size)>>,
         evals |-> <<>>]

\* The accumulating expressions a caller hands to the folds and to scan, over
\* an int accumulator acc and an int element x: acc + x and x - acc are
\* example.c's, 2 * acc + x is sensitive to the order of the elements.
FoldFns == {"add", "xsub", "horner"}

ApplyAcc(f, acc, x) ==
    CASE f = "add"    -> acc + x
      [] f = "xsub"   -> x - acc
      [] f = "horner" -> 2 * acc + x

\* The value-returning macros yield no view; val is the value of the
\* statement expression.

\* The loop of iter_sum from index i on.
RECURSIVE sum_loop(_, _, _, _, _)
sum_loop(h, it, type, i, sum) ==
    IF ~(i < it.len) THEN sum
    ELSE sum_loop(h, it, type, i + 1, sum + ElemAt(h, it, type, i)[1])

\* iter_sum with its loop started at index 1.
iter_sum_SkipFirst(h, it, type) ==
    [heap |-> h, out |-> <<>>, evals |-> <<>>, val |-> sum_loop(h, it, type, 1, 0)]

iter_sum(h, it, type) ==
    [heap |-> h, out |-> <<>>, evals |-> <<>>, val |-> sum_loop(h, it, type, 0, 0)]

\* The loop of iter_foldl from index i on.
RECURSIVE foldl_loop(_, _, _, _, _, _, _)
foldl_loop(h, it, type, f, i, acc, evals) ==
    IF ~(i < it.len) THEN [val |-> acc, evals |-> evals]
    ELSE LET x == ElemAt(h, it, type, i)[1]
         IN  foldl_loop(h, it, type, f, i + 1, ApplyAcc(f, acc, x), Append(evals, i))

iter_foldl(h, it, type, init, f) ==
    LET r == foldl_loop(h, it, type, f, 0, init, <<>>)
    IN  [heap |-> h, out |-> <<>>, evals |-> r.evals, val |-> r.val]

\* The loop of iter_foldr from index i down.
RECURSIVE foldr_loop(_, _, _, _, _, _, _)
foldr_loop(h, it, type, f, i, acc, evals) ==
    IF ~(i >= 0) THEN [val |-> acc, evals |-> evals]
    ELSE LET x == ElemAt(h, it, type, i)[1]
         IN  foldr_loop(h, it, type, f, i - 1, ApplyAcc(f, acc, x), Append(evals, i))

\* iter_foldr walking the indices upwards.
iter_foldr_Upwards(h, it, type, init, f) ==
    LET r == foldl_loop(h, it, type, f, 0, init, <<>>)
    IN  [heap |-> h, out |-> <<>>, evals |-> r.evals, val |-> r.val]

iter_foldr(h, it, type, init, f) ==
    LET r == foldr_loop(h, it, type, f, it.len - 1, init, <<>>)
    IN  [heap |-> h, out |-> <<>>, evals |-> r.evals, val |-> r.val]

\* The loop of iter_scan from index i on.
RECURSIVE scan_loop(_, _, _, _, _, _, _, _)
scan_loop(h, it, out, type, f, i, acc, evals) ==
    IF ~(i < it.len) THEN [heap |-> h, evals |-> evals]
    ELSE LET x == ElemAt(h, it, type, i)[1]
             a == ApplyAcc(f, acc, x)
         IN  scan_loop(Store(h, PtrAdd(out, i * sizeof(type)), <<a>>),
                       it, out, type, f, i + 1, a, Append(evals, i))

\* The loop of iter_scan storing the accumulator before it is updated.
RECURSIVE scan_loop_StoreFirst(_, _, _, _, _, _, _, _)
scan_loop_StoreFirst(h, it, out, type, f, i, acc, evals) ==
    IF ~(i < it.len) THEN [heap |-> h, evals |-> evals]
    ELSE LET x == ElemAt(h, it, type, i)[1]
             a == ApplyAcc(f, acc, x)
         IN  scan_loop_StoreFirst(Store(h, PtrAdd(out, i * sizeof(type)), <<acc>>),
                                  it, out, type, f, i + 1, a, Append(evals, i))

iter_scan_StoreFirst(h, it, type, init, f) ==
    LET m == malloc(h, it.len * sizeof(type))
        r == scan_loop_StoreFirst(m.heap, it, m.ptr, type, f, 0, init, <<>>)
    IN  [heap |-> r.heap,
         out  |-> <<Iterator(m.ptr, it.len, sizeof(type))>>,
         evals |-> r.evals]

iter_scan(h, it, type, init, f) ==
    LET m == malloc(h, it.len * sizeof(type))
        r == scan_loop(m.heap, it, m.ptr, type, f, 0, init, <<>>)
    IN  [heap |-> r.heap,
         out  |-> <<Iterator(m.ptr, it.len, sizeof(type))>>,
         evals |-> r.evals]

\* The loop of iter_any from index i on.
RECURSIVE any_loop(_, _, _, _, _, _)
any_loop(h, it, type, pred, i, evals) ==
    IF ~(i < it.len) THEN [val |-> 0, evals |-> evals]
    ELSE IF Holds(pred, ElemAt(h, it, type, i))
         THEN [val |-> 1, evals |-> Append(evals, i)]
         ELSE any_loop(h, it, type, pred, i + 1, Append(evals, i))

\* The loop of iter_any without the break.
RECURSIVE any_loop_NoBreak(_, _, _, _, _, _, _)
any_loop_NoBreak(h, it, type, pred, i, found, evals) ==
    IF ~(i < it.len) THEN [val |-> found, evals |-> evals]
    ELSE any_loop_NoBreak(h, it, type, pred, i + 1,
                          IF Holds(pred, ElemAt(h, it, type, i)) THEN 1 ELSE found,
                          Append(evals, i))

iter_any_NoBreak(h, it, type, pred) ==
    LET r == any_loop_NoBreak(h, it, type, pred, 0, 0, <<>>)
    IN  [heap |-> h, out |-> <<>>, evals |-> r.evals, val |-> r.val]

iter_any(h, it, type, pred) ==
    LET r == any_loop(h, it, type, pred, 0, <<>>)
    IN  [heap |-> h, out |-> <<>>, evals |-> r.evals, val |-> r.val]

\* The loop of iter_all from index i on.
RECURSIVE all_loop(_, _, _, _, _, _)
all_loop(h, it, type, pred, i, evals) ==
    IF ~(i < it.len) THEN [val |-> 1, evals |-> evals]
    ELSE IF ~Holds(pred, ElemAt(h, it, type, i))
         THEN [val |-> 0, evals |-> Append(evals, i)]
         ELSE all_loop(h, it, type, pred, i + 1, Append(evals, i))

iter_all(h, it, type, pred) ==
    LET r == all_loop(h, it, type, pred, 0, <<>>)
    IN  [heap |-> h, out |-> <<>>, evals |-> r.evals, val |-> r.val]

\* The loop of iter_zip from index i on; a pairtype value is the cells of its
\* field a followed by the cells of its field b.
RECURSIVE zip_loop(_, _, _, _, _, _, _, _, _)
zip_loop(h, a, it1type, b, it2type, pairtype, out, n, i) ==
    IF ~(i < n) THEN h
    ELSE zip_loop(Store(h, PtrAdd(out, i * sizeof(pairtype)),
                        ElemAt(h, a, it1type, i) \o ElemAt(h, b, it2type, i)),
                  a, it1type, b, it2type, pairtype, out, n, i + 1)

\* iter_zip that takes the first view's length.
iter_zip_LenOfFirst(h, it1type, a, it2type, b, pairtype) ==
    LET n == a.len
        m == malloc(h, n * sizeof(pairtype))
    IN  [heap |-> zip_loop(m.heap, a, it1type, b, it2type, pairtype, m.ptr, n, 0),
         out  |-> <<Iterator(m.ptr, n, sizeof(pairtype))>>,
         evals |-> <<>>]

iter_zip(h, it1type, a, it2type, b, pairtype) ==
    LET n == IF a.len < b.len THEN a.len ELSE b.len
        m == malloc(h, n * sizeof(pairtype))
    IN  [heap |-> zip_loop(m.heap, a, it1type, b, it2type, pairtype, m.ptr, n, 0),
         out  |-> <<Iterator(m.ptr, n, sizeof(pairtype))>>,
         evals |-> <<>>]

\* An Iterator stored in memory takes three cells: data, len, elem_size.
IterCells(it) == <<it.data, it.len, it.elem_size>>

\* itertype inner = ((itertype*)_it.data)[_i];
InnerAt(h, it, itertype, i) ==
    LET c == ElemAt(h, it, itertype, i)
    IN  Iterator(c[1], c[2], c[3])

\* The first loop of iter_flatten from index i on: the total length.
RECURSIVE flatten_total(_, _, _, _, _)
flatten_total(h, it, itertype, i, total) ==
    IF ~(i < it.len) THEN total
    ELSE flatten_total(h, it, itertype, i + 1, total + InnerAt(h, it, itertype, i).len)

\* The inner loop of iter_flatten from index j on, writing at position pos.
RECURSIVE flatten_inner(_, _, _, _, _, _)
flatten_inner(h, inner, elemtype, out, j, pos) ==
    IF ~(j < inner.len) THEN [heap |-> h, pos |-> pos]
    ELSE flatten_inner(Store(h, PtrAdd(out, pos * sizeof(elemtype)),
                             ElemAt(h, inner, elemtype, j)),
                       inner, elemtype, out, j + 1, pos + 1)

\* The second loop of iter_flatten from index i on.
RECURSIVE flatten_loop(_, _, _, _, _, _, _)
flatten_loop(h, it, itertype, elemtype, out, i, pos) ==
    IF ~(i < it.len) THEN h
    ELSE LET r == flatten_inner(h, InnerAt(h, it, itertype, i), elemtype, out, 0, pos)
         IN  flatten_loop(r.heap, it, itertype, elemtype, out, i + 1, r.pos)

\* The second loop of iter_flatten with _pos set back to 0 for each inner view.
RECURSIVE flatten_loop_PosReset(_, _, _, _, _, _, _)
flatten_loop_PosReset(h, it, itertype, elemtype, out, i, pos) ==
    IF ~(i < it.len) THEN h
    ELSE LET r == flatten_inner(h, InnerAt(h, it, itertype, i), elemtype, out, 0, 0)
         IN  flatten_loop_PosReset(r.heap, it, itertype, elemtype, out, i + 1, r.pos)

iter_flatten_PosReset(h, it, itertype, elemtype) ==
    LET total == flatten_total(h, it, itertype, 0, 0)
        m     == malloc(h, total * sizeof(elemtype))
    IN  [heap |-> flatten_loop_PosReset(m.heap, it, itertype, elemtype, m.ptr, 0, 0),
         out  |-> <<Iterator(m.ptr, total, sizeof(elemtype))>>,
         evals |-> <<>>]

iter_flatten(h, it, itertype, elemtype) ==
    LET total == flatten_total(h, it, itertype, 0, 0)
        m     == malloc(h, total * sizeof(elemtype))
    IN  [heap |-> flatten_loop(m.heap, it, itertype, elemtype, m.ptr, 0, 0),
         out  |-> <<Iterator(m.ptr, total, sizeof(elemtype))>>,
         evals |-> <<>>]

\* The element type of iter_range is int, modelled IntModulus values wide
\* (two's complement): TLC's own integers must hold every intermediate value.
IntModulus == 2 ^ 5

IntMin == 0 - (IntModulus \div 2)

IntMax == (IntModulus \div 2) - 1

\* The int congruent to x.
WrapInt(x) == ((x - IntMin) % IntModulus) + IntMin

\* The values `_e - _s` can have, computed in int: the difference when int
\* can hold it; otherwise the subtraction overflows, which is undefined: a
\* build computes the wrapped difference, or the difference in a wider
\* register.
SubInt(e, s) ==
    IF e - s \in IntMin..IntMax THEN {e - s} ELSE {WrapInt(e - s), e - s}

\* The largest request malloc can satisfy (an object's size fits ptrdiff_t).
PtrdiffMax == (SizeModulus \div 2) - 1

NullPtr == Ptr(0, 0)

\* The loop of iter_range from index i on: _out[_i] = _s + (type)_i.
RECURSIVE range_loop(_, _, _, _, _, _)
range_loop(h, out, type, s, n, i) ==
    IF ~(i < n) THEN h
    ELSE range_loop(Store(h, PtrAdd(out, i * sizeof(type)), <<WrapInt(s + WrapInt(i))>>),
                    out, type, s, n, i + 1)

\* iter_range where `_e - _s` has the value d. When malloc cannot satisfy the
\* request it returns NULL and the loop's first store faults.
iter_range(h, type, start, end, d) ==
    LET n == IF end > start THEN ToSizeT(d) ELSE 0
        m == malloc(h, n * sizeof(type))
    IN  IF ToSizeT(n * sizeof(type)) > PtrdiffMax
        THEN [heap |-> h, out |-> <<Iterator(NullPtr, n, sizeof(type))>>,
              evals |-> <<>>, fault |-> TRUE]
        ELSE [heap |-> range_loop(m.heap, m.ptr, type, start, n, 0),
              out  |-> <<Iterator(m.ptr, n, sizeof(type))>>,
              evals |-> <<>>, fault |-> FALSE]

\* The loop of iter_for from index i on. The operation op is the caller's
\* code; what the model keeps of it is the index at which it ran (evals),
\* the value x it was given (seen), and where that value was read (reads).
RECURSIVE for_loop(_, _, _, _, _, _, _)
for_loop(h, it, type, i, evals, seen, reads) ==
    IF ~(i < it.len) THEN [evals |-> evals, seen |-> seen, reads |-> reads]
    ELSE for_loop(h, it, type, i + 1, Append(evals, i),
                  Append(seen, ElemAt(h, it, type, i)),
                  Append(reads, [p |-> PtrAdd(it.data, i * sizeof(type)), n |-> sizeof(type)]))

\* iter_for that yields the view without its last element.
iter_for_Shorter(h, it, type) ==
    LET r == for_loop(h, it, type, 0, <<>>, <<>>, <<>>)
    IN  [heap |-> h,
         out |-> <<Iterator(it.data, IF it.len > 0 THEN it.len - 1 ELSE 0, it.elem_size)>>,
         evals |-> r.evals, val |-> r.seen, reads |-> r.reads, writes |-> <<>>]

\* iter_for yields _it itself; val is the values op was given, in order.
iter_for(h, it, type) ==
    LET r == for_loop(h, it, type, 0, <<>>, <<>>, <<>>)
    IN  [heap |-> h, out |-> <<it>>, evals |-> r.evals, val |-> r.seen,
         reads |-> r.reads, writes |-> <<>>]

\* iter_then: expr is one statement of the body, so it runs once (evals has
\* one entry), and _it is yielded.
iter_then(h, it) ==
    [heap |-> h, out |-> <<it>>, evals |-> <<0>>, val |-> 0]

\* -------------------------------------------- argument expressions
\* The macros paste their argument expressions into their bodies, so an
\* argument is evaluated wherever its parameter is expanded. An argument
\* expression is modelled as a read of one of the caller's variables, with
\* (inc = 1, as in i++) or without (inc = 0) a post-increment: evaluating it
\* returns the variable's value and leaves the variable increased by inc.
EvalArg(h, e) ==
    LET v == Load(h, e.var, 1)[1]
    IN  [heap |-> Store(h, e.var, <<v + e.inc>>), val |-> v]

\* iter_take with n an expression:
\* size_t _n = (n) < _it.len ? (n) : _it.len; expands n in the condition and
\* in the second operand. argn counts the evaluations of each argument.
iter_take_expr(h, it, n) ==
    LET c1 == EvalArg(h, n)
        c2 == EvalArg(c1.heap, n)
        lt == ToSizeT(c1.val) < it.len
        _n == IF lt THEN ToSizeT(c2.val) ELSE it.len
    IN  [heap |-> IF lt THEN c2.heap ELSE c1.heap,
         out  |-> <<Iterator(it.data, _n, it.elem_size)>>,
         evals |-> <<>>,
         argn |-> <<IF lt THEN 2 ELSE 1>>]

\* iter_drop with n an expression, expanded as in iter_take.
iter_drop_expr(h, it, n) ==
    LET c1 == EvalArg(h, n)
        c2 == EvalArg(c1.heap, n)
        lt == ToSizeT(c1.val) < it.len
        _n == IF lt THEN ToSizeT(c2.val) ELSE it.len
    IN  [heap |-> IF lt THEN c2.heap ELSE c1.heap,
         out  |-> <<Iterator(PtrAdd(it.data, _n * it.elem_size),
                             ToSizeT(it.len - _n), it.elem_size)>>,
         evals |-> <<>>,
         argn |-> <<IF lt THEN 2 ELSE 1>>]

\* iter_slice with start and end expressions: _s is declared before _e, each
\* with the argument in the condition and in the second operand.
iter_slice_expr(h, it, start, end) ==
    LET s1  == EvalArg(h, start)
        s2  == EvalArg(s1.heap, start)
        slt == ToSizeT(s1.val) < it.len
        _s  == IF slt THEN ToSizeT(s2.val) ELSE it.len
        hs  == IF slt THEN s2.heap ELSE s1.heap
        e1  == EvalArg(hs, end)
        e2  == EvalArg(e1.heap, end)
        elt == ToSizeT(e1.val) < it.len
        _e  == IF elt THEN ToSizeT(e2.val) ELSE it.len
    IN  [heap |-> IF elt THEN e2.heap ELSE e1.heap,
         out  |-> <<Iterator(PtrAdd(it.data, _s * it.elem_size),
                             IF _e > _s THEN _e - _s ELSE 0, it.elem_size)>>,
         evals |-> <<>>,
         argn |-> <<IF slt THEN 2 ELSE 1, IF elt THEN 2 ELSE 1>>]

\* iter_repeat with times an expression: size_t _t = (times);
iter_repeat_expr(h, it, times) ==
    LET c == EvalArg(h, times)
    IN  iter_repeat(c.heap, it, c.val) @@ [argn |-> <<1>>]

\* iter_pad with newlen and padval expressions: __auto_type _padval =
\* (padval); comes first, then _iter_pad_ptr's size_t _n = (newlen);
iter_pad_expr(h, it, newlen, padval) ==
    LET p == EvalArg(h, padval)
        n == EvalArg(p.heap, newlen)
    IN  iter_pad(n.heap, it, n.val, <<p.val>>) @@ [argn |-> <<1, 1>>]

\* iter_foldl, iter_foldr and iter_scan with init an expression:
\* acc_type acc = (init);
iter_foldl_expr(h, it, type, init, f) ==
    LET c == EvalArg(h, init)
    IN  iter_foldl(c.heap, it, type, c.val, f) @@ [argn |-> <<1>>]

iter_foldr_expr(h, it, type, init, f) ==
    LET c == EvalArg(h, init)
    IN  iter_foldr(c.heap, it, type, c.val, f) @@ [argn |-> <<1>>]

iter_scan_expr(h, it, type, init, f) ==
    LET c == EvalArg(h, init)
    IN  iter_scan(c.heap, it, type, c.val, f) @@ [argn |-> <<1>>]

\* The outcomes of iter_range with start and end expressions:
\* type _s = (start), _e = (end);
iter_range_expr(h, type, start, end) ==
    LET s == EvalArg(h, start)
        e == EvalArg(s.heap, end)
    IN  {iter_range(e.heap, type, s.val, e.val, d) @@ [argn |-> <<1, 1>>] :
            d \in SubInt(e.val, s.val)}

\* ---------------------------------------------------------- the program
\* The program declares one array, wraps it with to_iter and then makes up
\* to MaxCalls library calls, each on a view the previous call yielded (cur).
\* last records the latest call: the macro, the heap before it (pre), its
\* input view and arguments, the views it yielded and its evaluation order.

NoView == Iterator(Ptr(0, 0), 0, 0)

LastNone ==
    [op |-> "none", pre |-> <<>>, in |-> NoView, type |-> "", fn |-> "",
     a1 |-> 0, a2 |-> 0, out |-> <<>>, evals |-> <<>>]

\* The integer arguments (n, start, end) the program passes.
Args == -1..(MaxLen + 1)

\* The declared array's content: any cells up to MaxLen, or example.c's arr2.
ArrayInits(type) ==
    {a \in SeqsUpTo(Cell, MaxLen) : Len(a) % sizeof(type) = 0}
        \cup (IF type = "int" THEN {arr2} ELSE {})

Init ==
    /\ chain = ChainIdle
    /\ pipe = PipeIdle
    /\ \E type \in Types :
          \E a \in ArrayInits(type) :
              /\ heap = <<[kind |-> "array", cap |-> Len(a), cells |-> a]>>
              /\ cur = <<to_iter(heap, 1, type)>>
    /\ last = LastNone
    /\ ncalls = 0

\* The state after a call of macro op on view it that returned r.
Called(op, it, type, fn, a1, a2, r) ==
    /\ ncalls < MaxCalls
    /\ ncalls' = ncalls + 1
    /\ heap' = r.heap
    /\ cur' = r.out
    /\ last' = [op |-> op, pre |-> heap, in |-> it, type |-> type, fn |-> fn,
                a1 |-> a1, a2 |-> a2, out |-> r.out, evals |-> r.evals]
    /\ UNCHANGED <<chain, pipe>>

\* The element types a well-typed call may name for view it.
TypesOf(it) == {t \in Types : sizeof(t) = it.elem_size}

Map ==
    \E k \in DOMAIN cur, f \in Funcs :
        /\ FnIn(f) \in TypesOf(cur[k])
        /\ Called("map", cur[k], FnIn(f), f, 0, 0,
                  iter_map(heap, cur[k], FnIn(f), FnOut(f), f))

Slice ==
    \E k \in DOMAIN cur, start \in Args, end \in Args :
        Called("slice", cur[k], "", "", start, end, iter_slice(heap, cur[k], start, end))

Filter ==
    \E k \in DOMAIN cur, p \in Preds :
        \E t \in TypesOf(cur[k]) :
            Called("filter", cur[k], t, p, 0, 0, iter_filter(heap, cur[k], t, p))

Take ==
    \E k \in DOMAIN cur, n \in Args :
        Called("take", cur[k], "", "", n, 0, iter_take(heap, cur[k], n))

Drop ==
    \E k \in DOMAIN cur, n \in Args :
        Called("drop", cur[k], "", "", n, 0, iter_drop(heap, cur[k], n))

Reverse ==
    \E k \in DOMAIN cur :
        Called("reverse", cur[k], "", "", 0, 0, iter_reverse(heap, cur[k]))

Unique ==
    \E k \in DOMAIN cur :
        Called("unique", cur[k], "", "", 0, 0, iter_unique(heap, cur[k]))

Partition ==
    \E k \in DOMAIN cur, p \in Preds :
        \E t \in TypesOf(cur[k]) :
            Called("partition", cur[k], t, p, 0, 0, iter_partition(heap, cur[k], t, p))

Next ==
    \/ Map
    \/ Slice
    \/ Filter
    \/ Take
    \/ Drop
    \/ Reverse
    \/ Unique
    \/ Partition

Spec == Init /\ [][Next]_vars

\* ------------------------------------------- the programs of the other macros
\* The remaining macros are exercised by programs of their own, each making up
\* to MaxCalls calls. Their calls are recorded in last with, in addition, the
\* second input view (in2), the value a value-returning macro yielded (val)
\* and whether the call faulted (fault).

\* The state after a call of macro op on views it and it2 that returned r and
\* left the program holding the views newcur.
Returned(op, it, it2, type, fn, a1, a2, r, newcur) ==
    /\ ncalls < MaxCalls
    /\ ncalls' = ncalls + 1
    /\ heap' = r.heap
    /\ cur' = newcur
    /\ last' = [op |-> op, pre |-> heap, in |-> it, in2 |-> it2, type |-> type,
                fn |-> fn, a1 |-> a1, a2 |-> a2, out |-> r.out, evals |-> r.evals,
                val |-> IF "val" \in DOMAIN r THEN r.val ELSE 0,
                fault |-> IF "fault" \in DOMAIN r THEN r.fault ELSE FALSE]
    /\ UNCHANGED <<chain, pipe>>

\* How many leading elements a program drops from a fresh view before use.
Drops == {0, 1}

\* t2 = iter_concat(t2, it2): the first view is the running result, the
\* second operand is either view the program holds.
Concat ==
    \E k \in DOMAIN cur :
        /\ cur[1].elem_size = cur[k].elem_size
        /\ LET r == iter_concat(heap, cur[1], cur[k])
           IN  Returned("concat", cur[1], cur[k], "", "", 0, 0, r, <<r.out[1], cur[2]>>)

\* iter_zip(int, it3, int, it4, pair_int_int)
Zip ==
    \E k \in DOMAIN cur :
        /\ cur[1].elem_size = sizeof("int")
        /\ cur[k].elem_size = sizeof("int")
        /\ LET r == iter_zip(heap, "int", cur[1], "int", cur[k], "pair")
           IN  Returned("zip", cur[1], cur[k], "pair", "", 0, 0, r, <<r.out[1], cur[2]>>)

CopyNext == Concat \/ Zip

\* Two arrays of one element type, each wrapped with to_iter.
CopyInit ==
    /\ chain = ChainIdle
    /\ pipe = PipeIdle
    /\ \E type \in Types, d \in Drops :
          \E a \in ArrayInits(type), b \in ArrayInits(type) :
              /\ heap = <<[kind |-> "array", cap |-> Len(a), cells |-> a],
                          [kind |-> "array", cap |-> Len(b), cells |-> b]>>
              /\ cur = <<to_iter(heap, 1, type),
                         iter_drop(heap, to_iter(heap, 2, type), d).out[1]>>
    /\ last = LastNone
    /\ ncalls = 0

CopySpec == CopyInit /\ [][CopyNext]_vars

\* The times arguments the program passes to iter_repeat.
Times == 0..MaxLen

\* The newlen arguments the program passes to iter_pad.
NewLens == 0..(MaxLen + 1)

\* The pad values the program passes for elements of elem_size cells.
PadVals(elem_size) == {[i \in 1..elem_size |-> v] : v \in {0, MaxVal}}

Repeat ==
    \E times \in Times :
        LET r == iter_repeat(heap, cur[1], times)
        IN  Returned("repeat", cur[1], NoView, "", "", times, 0, r, r.out)

Pad ==
    \E newlen \in NewLens :
        \E padval \in PadVals(cur[1].elem_size) :
            LET r == iter_pad(heap, cur[1], newlen, padval)
            IN  Returned("pad", cur[1], NoView, "", "", newlen, padval, r, r.out)

GrowNext == Repeat \/ Pad

\* One array, wrapped with to_iter.
GrowInit ==
    /\ chain = ChainIdle
    /\ pipe = PipeIdle
    /\ \E type \in Types, d \in Drops :
          \E a \in ArrayInits(type) :
              /\ heap = <<[kind |-> "array", cap |-> Len(a), cells |-> a]>>
              /\ cur = <<iter_drop(heap, to_iter(heap, 1, type), d).out[1]>>
    /\ last = LastNone
    /\ ncalls = 0

GrowSpec == GrowInit /\ [][GrowNext]_vars

\* int arr3[] = {10, 20, 30, 40}; of example.c.
arr3 == <<10, 20, 30, 40>>

\* The init arguments the program passes to the folds and to scan.
FoldInits == {0, 1}

Sum ==
    LET r == iter_sum(heap, cur[1], "int")
    IN  Returned("sum", cur[1], NoView, "int", "add", 0, 0, r, cur)

Foldl ==
    \E init \in FoldInits, f \in FoldFns :
        LET r == iter_foldl(heap, cur[1], "int", init, f)
        IN  Returned("foldl", cur[1], NoView, "int", f, init, 0, r, cur)

Foldr ==
    \E init \in FoldInits, f \in FoldFns :
        LET r == iter_foldr(heap, cur[1], "int", init, f)
        IN  Returned("foldr", cur[1], NoView, "int", f, init, 0, r, cur)

Scan ==
    \E init \in FoldInits, f \in FoldFns :
        LET r == iter_scan(heap, cur[1], "int", init, f)
        IN  Returned("scan", cur[1], NoView, "int", f, init, 0, r, r.out)

IterAny ==
    \E p \in Preds :
        LET r == iter_any(heap, cur[1], "int", p)
        IN  Returned("any", cur[1], NoView, "int", p, 0, 0, r, cur)

IterAll ==
    \E p \in Preds :
        LET r == iter_all(heap, cur[1], "int", p)
        IN  Returned("all", cur[1], NoView, "int", p, 0, 0, r, cur)

FoldNext == Sum \/ Foldl \/ Foldr \/ Scan \/ IterAny \/ IterAll

\* One array of ints, wrapped with to_iter.
FoldInit ==
    /\ chain = ChainIdle
    /\ pipe = PipeIdle
    /\ \E a \in ArrayInits("int") \cup {arr3}, d \in Drops :
          /\ heap = <<[kind |-> "array", cap |-> Len(a), cells |-> a]>>
          /\ cur = <<iter_drop(heap, to_iter(heap, 1, "int"), d).out[1]>>
    /\ last = LastNone
    /\ ncalls = 0

FoldSpec == FoldInit /\ [][FoldNext]_vars

\* The views the program stores in arr_iters.
InnerViews(h, type) ==
    {to_iter(h, 1, type), to_iter(h, 2, type), iter_drop(h, to_iter(h, 2, type), 1).out[1]}

\* The cells of an array holding the Iterators of list vs.
ArrayOfIters(vs) ==
    [k \in 1..(sizeof("Iterator") * Len(vs)) |->
        IterCells(vs[((k - 1) \div sizeof("Iterator")) + 1])[((k - 1) % sizeof("Iterator")) + 1]]

\* iter_flatten(iters_iter, Iterator, int): the element type named is the one
\* the inner views share.
Flatten ==
    \E t \in Types :
        /\ cur[1].elem_size = sizeof("Iterator")
        /\ \A i \in 0..(cur[1].len - 1) :
              InnerAt(heap, cur[1], "Iterator", i).elem_size = sizeof(t)
        /\ LET r == iter_flatten(heap, cur[1], "Iterator", t)
           IN  Returned("flatten", cur[1], NoView, t, "", 0, 0, r, r.out)

FlattenNext == Flatten

\* Two arrays of one element type, and an array arr_iters of at most MaxLen
\* views into them, wrapped with to_iter.
FlattenInit ==
    /\ chain = ChainIdle
    /\ pipe = PipeIdle
    /\ \E type \in Types :
          \E a \in ArrayInits(type), b \in ArrayInits(type) :
              LET h == <<[kind |-> "array", cap |-> Len(a), cells |-> a],
                         [kind |-> "array", cap |-> Len(b), cells |-> b]>>
              IN  \E vs \in SeqsUpTo(InnerViews(h, type), MaxLen) :
                      /\ heap = Append(h, [kind |-> "array",
                                           cap |-> sizeof("Iterator") * Len(vs),
                                           cells |-> ArrayOfIters(vs)])
                      /\ cur = <<to_iter(heap, 3, "Iterator")>>
    /\ last = LastNone
    /\ ncalls = 0

FlattenSpec == FlattenInit /\ [][FlattenNext]_vars

\* Iterator rng = iter_range(int, 5, 10): the program's only call.
IterRange ==
    \E start \in IntMin..IntMax, end \in IntMin..IntMax :
        \E d \in SubInt(end, start) :
            /\ last.op = "none"
            /\ LET r == iter_range(heap, "int", start, end, d)
               IN  Returned("range", NoView, NoView, "int", "", start, end, r,
                            IF r.fault THEN <<>> ELSE r.out)

RangeNext == IterRange

RangeInit ==
    /\ chain = ChainIdle
    /\ pipe = PipeIdle
    /\ heap = <<>>
    /\ cur = <<>>
    /\ last = LastNone
    /\ ncalls = 0

RangeSpec == RangeInit /\ [][RangeNext]_vars

\* iter_for(t2, int, x, printf("%d ", x)): the type named is the view's.
ForEach ==
    \E t \in TypesOf(cur[1]) :
        LET r == iter_for(heap, cur[1], t)
        IN  Returned("for", cur[1], NoView, t, "", 0, 0, r, r.out)

Then ==
    LET r == iter_then(heap, cur[1])
    IN  Returned("then", cur[1], NoView, "", "", 0, 0, r, r.out)

\* The pipeline of example.c's first iterator test: traversals with an
\* iter_drop between them.
VisitNext == ForEach \/ Then \/ Drop

VisitInit ==
    /\ chain = ChainIdle
    /\ pipe = PipeIdle
    /\ \E type \in Types, d \in Drops :
          \E a \in ArrayInits(type) :
              /\ heap = <<[kind |-> "array", cap |-> Len(a), cells |-> a]>>
              /\ cur = <<iter_drop(heap, to_iter(heap, 1, type), d).out[1]>>
    /\ last = LastNone
    /\ ncalls = 0

VisitSpec == VisitInit /\ [][VisitNext]_vars

\* Iterator Test 2 of example.c: t2 = to_iter(arr2) and then six reassignments
\* t2 = iter_...(t2, ...) in a fixed order. ncalls is the number of steps
\* done; last.trace lists them with their arguments and the length yielded.

\* The state after step op of the test, which returned r.
Stepped(op, a1, a2, r) ==
    /\ ncalls' = ncalls + 1
    /\ heap' = r.heap
    /\ cur' = r.out
    /\ last' = [op |-> op, pre |-> heap, in |-> cur[1], in2 |-> NoView, type |-> "int",
                fn |-> "", a1 |-> a1, a2 |-> a2, out |-> r.out, evals |-> r.evals,
                val |-> 0, fault |-> FALSE,
                trace |-> Append(IF ncalls = 0 THEN <<>> ELSE last.trace,
                                 [op |-> op, a1 |-> a1, a2 |-> a2, len |-> r.out[1].len])]
    /\ UNCHANGED <<chain, pipe>>

\* STEP 2: t2 = iter_repeat(t2, 2);
ExRepeat ==
    /\ ncalls = 0
    /\ \E times \in {1, 2} :
          Stepped("repeat", times, 0, iter_repeat(heap, cur[1], times))

\* STEP 3: t2 = iter_concat(t2, to_iter(arr2));
ExConcat ==
    /\ ncalls = 1
    /\ Stepped("concat", 0, 0, iter_concat(heap, cur[1], to_iter(heap, 1, "int")))

\* STEP 4: t2 = iter_reverse(t2);
ExReverse ==
    /\ ncalls = 2
    /\ Stepped("reverse", 0, 0, iter_reverse(heap, cur[1]))

\* STEP 5: t2 = iter_unique(t2);
ExUnique ==
    /\ ncalls = 3
    /\ Stepped("unique", 0, 0, iter_unique(heap, cur[1]))

\* STEP 6: t2 = iter_pad(t2, 10, 99);
ExPad ==
    /\ ncalls = 4
    /\ \E newlen \in {3, 10}, padval \in {0, 99} :
          Stepped("pad", newlen, padval, iter_pad(heap, cur[1], newlen, <<padval>>))

\* STEP 7: t2 = iter_slice(t2, 2, 7);
ExSlice ==
    /\ ncalls = 5
    /\ \E b \in {<<2, 7>>, <<0, 2>>} :
          Stepped("slice", b[1], b[2], iter_slice(heap, cur[1], b[1], b[2]))

ExampleNext == ExRepeat \/ ExConcat \/ ExReverse \/ ExUnique \/ ExPad \/ ExSlice

\* STEP 1: t2 = to_iter(arr2), for arr2 and for the other int arrays.
ExampleInit ==
    /\ chain = ChainIdle
    /\ pipe = PipeIdle
    /\ \E a \in ArrayInits("int") :
          /\ heap = <<[kind |-> "array", cap |-> Len(a), cells |-> a]>>
          /\ cur = <<to_iter(heap, 1, "int")>>
    /\ last = LastNone
    /\ ncalls = 0

ExampleSpec == ExampleInit /\ [][ExampleNext]_vars

\* A program that uses the whole library: t = to_iter(arr) and then up to
\* MaxCalls statements, each a call of one macro on t, the view-yielding ones
\* written t = iter_...(t, ...). cur is <<t, to_iter(arr)>>; the second view is
\* the other operand of iter_concat and iter_zip.

\* The state after the statement calling op, which returned r.
LibStmt(op, type, r) ==
    Returned(op, cur[1], cur[2], type, "", 0, 0, r,
             IF r.out = <<>> THEN cur ELSE <<r.out[1], cur[2]>>)

LibMap ==
    \E f \in Funcs :
        /\ FnIn(f) \in TypesOf(cur[1])
        /\ LibStmt("map", FnIn(f), iter_map(heap, cur[1], FnIn(f), FnOut(f), f))

LibFilter ==
    \E t \in TypesOf(cur[1]) : LibStmt("filter", t, iter_filter(heap, cur[1], t, "nz"))

LibPartition ==
    \E t \in TypesOf(cur[1]) : LibStmt("partition", t, iter_partition(heap, cur[1], t, "nz"))

LibReverse == LibStmt("reverse", "", iter_reverse(heap, cur[1]))

LibUnique == LibStmt("unique", "", iter_unique(heap, cur[1]))

LibTake == LibStmt("take", "", iter_take(heap, cur[1], 1))

LibDrop == LibStmt("drop", "", iter_drop(heap, cur[1], 1))

LibSlice == LibStmt("slice", "", iter_slice(heap, cur[1], 1, MaxLen))

LibConcat ==
    /\ cur[1].elem_size = cur[2].elem_size
    /\ LibStmt("concat", "", iter_concat(heap, cur[1], cur[2]))

LibZip ==
    /\ cur[1].elem_size = sizeof("int")
    /\ cur[2].elem_size = sizeof("int")
    /\ LibStmt("zip", "pair", iter_zip(heap, "int", cur[1], "int", cur[2], "pair"))

LibRepeat == \E times \in {0, 2} : LibStmt("repeat", "", iter_repeat(heap, cur[1], times))

LibPad ==
    \E newlen \in {1, MaxLen + 1} :
        LibStmt("pad", "", iter_pad(heap, cur[1], newlen, [i \in 1..cur[1].elem_size |-> 0]))

LibScan ==
    /\ cur[1].elem_size = sizeof("int")
    /\ LibStmt("scan", "int", iter_scan(heap, cur[1], "int", 0, "add"))

\* Iterator arr_iters[2] = { t, to_iter(arr) }; t = iter_flatten(to_iter(arr_iters), ...)
LibFlatten ==
    \E t \in TypesOf(cur[1]) :
        /\ cur[1].elem_size = cur[2].elem_size
        /\ LET h == Append(heap, [kind |-> "array", cap |-> 2 * sizeof("Iterator"),
                                  cells |-> ArrayOfIters(cur)])
               r == iter_flatten(h, to_iter(h, Len(h), "Iterator"), "Iterator", t)
           IN  LibStmt("flatten", t, r)

\* t = iter_range(int, start, end), with end - start within int.
LibRange ==
    \E b \in {<<0, 2>>, <<1, 1>>} :
        LibStmt("range", "int", iter_range(heap, "int", b[1], b[2], b[2] - b[1]))

LibFor == \E t \in TypesOf(cur[1]) : LibStmt("for", t, iter_for(heap, cur[1], t))

LibThen == LibStmt("then", "", iter_then(heap, cur[1]))

\* The value-yielding macros, on a view of ints.
LibReduce ==
    /\ cur[1].elem_size = sizeof("int")
    /\ \/ LibStmt("sum", "int", iter_sum(heap, cur[1], "int"))
       \/ LibStmt("foldl", "int", iter_foldl(heap, cur[1], "int", 0, "add"))
       \/ LibStmt("foldr", "int", iter_foldr(heap, cur[1], "int", 0, "xsub"))
       \/ LibStmt("any", "int", iter_any(heap, cur[1], "int", "nz"))
       \/ LibStmt("all", "int", iter_all(heap, cur[1], "int", "nz"))

LibNext ==
    \/ LibMap
    \/ LibFilter
    \/ LibPartition
    \/ LibReverse
    \/ LibUnique
    \/ LibTake
    \/ LibDrop
    \/ LibSlice
    \/ LibConcat
    \/ LibZip
    \/ LibRepeat
    \/ LibPad
    \/ LibScan
    \/ LibFlatten
    \/ LibRange
    \/ LibFor
    \/ LibThen
    \/ LibReduce

\* The arrays of the library program: the empty array, the arrays of one
\* element, and arr2.
LibArrays(type) ==
    {a \in ArrayInits(type) : Len(a) <= sizeof(type) \/ a = arr2}

LibInit ==
    /\ chain = ChainIdle
    /\ pipe = PipeIdle
    /\ \E type \in Types :
          \E a \in LibArrays(type) :
              /\ heap = <<[kind |-> "array", cap |-> Len(a), cells |-> a]>>
              /\ cur = <<to_iter(heap, 1, type), to_iter(heap, 1, type)>>
    /\ last = LastNone
    /\ ncalls = 0

LibSpec == LibInit /\ [][LibNext]_vars

\* A program whose calls need not name the view's element type nor
\* concatenate views of one element size: the macros check neither. last
\* records the memory ranges the call read and wrote.

\* The state after a call of op that returned r with its accesses.
Accessed(op, it, it2, type, r, newcur) ==
    /\ ncalls < MaxCalls
    /\ ncalls' = ncalls + 1
    /\ heap' = r.heap
    /\ cur' = newcur
    /\ last' = [op |-> op, pre |-> heap, in |-> it, in2 |-> it2, type |-> type,
                fn |-> "", a1 |-> 0, a2 |-> 0, out |-> r.out, evals |-> r.evals,
                val |-> 0, fault |-> FALSE, reads |-> r.reads, writes |-> r.writes]
    /\ UNCHANGED <<chain, pipe>>

\* iter_for(_, double, x, printf("%.2f ", x)) on any view.
ForEachAs ==
    \E k \in DOMAIN cur, t \in Types :
        Accessed("for", cur[k], NoView, t, iter_for(heap, cur[k], t), cur)

\* iter_concat of any two views.
ConcatAny ==
    \E j \in DOMAIN cur, k \in DOMAIN cur :
        LET r == iter_concat(heap, cur[j], cur[k])
        IN  Accessed("concat", cur[j], cur[k], "", r, <<r.out[1], cur[2]>>)

BoundsNext == ForEachAs \/ ConcatAny

\* Two arrays, each of either element type, each wrapped with to_iter.
BoundsInit ==
    /\ chain = ChainIdle
    /\ pipe = PipeIdle
    /\ \E ta \in Types, tb \in Types :
          \E a \in ArrayInits(ta), b \in ArrayInits(tb) :
              /\ heap = <<[kind |-> "array", cap |-> Len(a), cells |-> a],
                          [kind |-> "array", cap |-> Len(b), cells |-> b]>>
              /\ cur = <<to_iter(heap, 1, ta), to_iter(heap, 2, tb)>>
    /\ last = LastNone
    /\ ncalls = 0

BoundsSpec == BoundsInit /\ [][BoundsNext]_vars

\* A program that passes expressions with side effects as arguments: it
\* declares int i, j next to an int array wrapped as v, and calls the macros
\* on v with i, i++, j or j++ for their bounds.

\* The caller's variables i and j, the two cells of the second buffer.
ArgVars == {Ptr(2, 0), Ptr(2, 1)}

\* The expressions i, i++ (over the first variable) and j, j++.
ArgExprs(var) == {[var |-> var, inc |-> inc] : inc \in 0..1}

\* The values i and j start with.
ArgVals == 0..(MaxLen + 1)

\* The state after a call of op on v with argument expressions args that
\* returned r; v is kept.
Evaluated(op, args, r) ==
    /\ ncalls < MaxCalls
    /\ ncalls' = ncalls + 1
    /\ heap' = r.heap
    /\ cur' = cur
    /\ last' = [op |-> op, pre |-> heap, in |-> cur[1], in2 |-> NoView, type |-> "int",
                fn |-> "", a1 |-> 0, a2 |-> 0, out |-> r.out, evals |-> r.evals,
                val |-> IF "val" \in DOMAIN r THEN r.val ELSE 0,
                fault |-> FALSE, args |-> args, argn |-> r.argn]
    /\ UNCHANGED <<chain, pipe>>

TakeArg ==
    \E n \in ArgExprs(Ptr(2, 0)) :
        Evaluated("take", <<n>>, iter_take_expr(heap, cur[1], n))

DropArg ==
    \E n \in ArgExprs(Ptr(2, 0)) :
        Evaluated("drop", <<n>>, iter_drop_expr(heap, cur[1], n))

SliceArg ==
    \E start \in ArgExprs(Ptr(2, 0)), end \in ArgExprs(Ptr(2, 1)) :
        Evaluated("slice", <<start, end>>, iter_slice_expr(heap, cur[1], start, end))

RepeatArg ==
    \E times \in ArgExprs(Ptr(2, 0)) :
        Evaluated("repeat", <<times>>, iter_repeat_expr(heap, cur[1], times))

PadArg ==
    \E newlen \in ArgExprs(Ptr(2, 0)), padval \in ArgExprs(Ptr(2, 1)) :
        Evaluated("pad", <<newlen, padval>>, iter_pad_expr(heap, cur[1], newlen, padval))

FoldArg ==
    \E init \in ArgExprs(Ptr(2, 0)) :
        \/ Evaluated("foldl", <<init>>, iter_foldl_expr(heap, cur[1], "int", init, "add"))
        \/ Evaluated("foldr", <<init>>, iter_foldr_expr(heap, cur[1], "int", init, "add"))
        \/ Evaluated("scan", <<init>>, iter_scan_expr(heap, cur[1], "int", init, "add"))

RangeArg ==
    \E start \in ArgExprs(Ptr(2, 0)), end \in ArgExprs(Ptr(2, 1)) :
        \E r \in iter_range_expr(heap, "int", start, end) :
            Evaluated("range", <<start, end>>, r)

ArgNext == TakeArg \/ DropArg \/ SliceArg \/ RepeatArg \/ PadArg \/ FoldArg \/ RangeArg

ArgInit ==
    /\ chain = ChainIdle
    /\ pipe = PipeIdle
    /\ \E a \in LibArrays("int"), i \in ArgVals, j \in ArgVals :
          /\ heap = <<[kind |-> "array", cap |-> Len(a), cells |-> a],
                      [kind |-> "local", cap |-> 2, cells |-> <<i, j>>]>>
          /\ cur = <<to_iter(heap, 1, "int")>>
    /\ last = LastNone
    /\ ncalls = 0

ArgSpec == ArgInit /\ [][ArgNext]_vars

\* ------------------------------------------------------- specifications

\* The program is a single chain(...) call site.
ChainInit ==
    /\ \E x \in ChainInputs, n \in 1..MaxChainFns :
          \E fs \in [1..n -> ChainFns] :
              chain = [pc |-> "start", args |-> <<x>> \o fs, name |-> "",
                       todo |-> <<>>, val |-> 0, applied |-> <<>>]
    /\ pipe = PipeIdle
    /\ heap = <<>>
    /\ cur = <<>>
    /\ last = LastNone
    /\ ncalls = 0

ChainSpec == ChainInit /\ [][ChainNext]_vars

\* The program is a single pipe(...) call site.
PipeInit ==
    /\ \E x \in PipeInits, b \in 1..MaxBase :
          \E base \in [1..b -> StepExprs], n \in b..MaxPipeSteps :
              pipe = [pc |-> "start", init |-> x, steps |-> Cyclic(base, n), name |-> "",
                      todo |-> <<>>, ph |-> 0, evals |-> <<>>]
    /\ chain = ChainIdle
    /\ heap = <<>>
    /\ cur = <<>>
    /\ last = LastNone
    /\ ncalls = 0

PipeSpec == PipeInit /\ [][PipeNext]_vars

\* ----------------------------------------------------------------- claims

\* fn(...f2(f1(x))) by recursion on the list of functions, last one outermost.
RECURSIVE Nested(_, _)
Nested(fs, x) ==
    IF fs = <<>> THEN x
    ELSE ApplyFn(fs[Len(fs)], Nested(SubSeq(fs, 1, Len(fs) - 1), x))

ChainFnsOf(c) == Tail(c.args)

\* C1: for every number n of unary functions from 1 to 9, chain(x, f1..fn)
\* expands to a macro taking exactly those n+1 arguments and evaluates to
\* fn(...f2(f1(x))), calling f1, ..., fn once each, innermost first.
C1_ChainNestsEveryArity ==
    (chain.pc \in {"done", "compile_error"} /\ Len(ChainFnsOf(chain)) \in 1..MaxChainFns)
        => /\ chain.pc = "done"
           /\ chain.applied = [i \in 1..Len(ChainFnsOf(chain)) |-> i]
           /\ chain.val = Nested(ChainFnsOf(chain), chain.args[1])

\* The step list of example.c's pipe test.
ExampleSteps == <<"sub(4,_)", "mul(5,_)", "sub(_,1)", "add(_,_)">>

\* C2: for every n from 1 to 10, pipe(init, s1..sn) evaluates init once, then
\* s1..sn in list order, once each, each seeing the previous result in the
\* placeholder, and yields the last step's value; the example pipe goes
\* 5, -1, -5, -6 and yields -12.
C2_PipeRunsStepsInOrder ==
    /\ pipe.pc # "compile_error"
    /\ \A i \in 1..Len(pipe.evals) :
          /\ pipe.evals[i].arg = i - 1
          /\ i = 1 => pipe.evals[i].got = pipe.init
          /\ i > 1 => /\ pipe.evals[i].saw = pipe.evals[i - 1].got
                      /\ pipe.evals[i].got = EvalStep(pipe.steps[i - 1], pipe.evals[i - 1].got)
    /\ pipe.pc = "done" =>
          /\ Len(pipe.evals) = Len(pipe.steps) + 1
          /\ pipe.ph = pipe.evals[Len(pipe.evals)].got
          /\ (pipe.init = 5 /\ pipe.steps = ExampleSteps) =>
                /\ [i \in 1..5 |-> pipe.evals[i].got] = <<5, -1, -5, -6, -12>>
                /\ pipe.ph = -12

C2_Witness ==
    /\ pipe.pc = "done"
    /\ pipe.init = 5
    /\ pipe.steps = ExampleSteps
    /\ pipe.ph = -12

\* The elements of view it in heap h, in order.
ViewSeq(h, it) ==
    [i \in 1..it.len |-> Load(h, PtrAdd(it.data, (i - 1) * it.elem_size), it.elem_size)]

\* The input of the latest call as it was before the call, and its k-th output.
In == ViewSeq(last.pre, last.in)

Out(k) == ViewSeq(heap, last.out[k])

\* The buffer view it points into is one the latest call allocated, the view
\* starts at its first cell and the buffer holds exactly n elements.
OwnsFresh(it, n) ==
    /\ it.data.buf \in (Len(last.pre) + 1)..Len(heap)
    /\ it.data.off = 0
    /\ heap[it.data.buf].kind = "malloc"
    /\ heap[it.data.buf].cap = n * it.elem_size

Allocating == {"map", "filter", "reverse", "unique", "partition"}

C4_TakeDropBorrow ==
    (last.op \in {"take", "drop"} /\ last.a1 >= 0) =>
        LET m == Min(last.a1, last.in.len)
            o == last.out[1]
        IN  /\ heap = last.pre
            /\ o.elem_size = last.in.elem_size
            /\ o.data.buf = last.in.data.buf
            /\ last.op = "take" =>
                  /\ o.len = m
                  /\ o.data = last.in.data
                  /\ \A i \in 1..m : Out(1)[i] = In[i]
            /\ last.op = "drop" =>
                  /\ o.len = last.in.len - m
                  /\ o.data.off = last.in.data.off + m * last.in.elem_size
                  /\ \A i \in 1..(last.in.len - m) : Out(1)[i] = In[m + i]

C4_Witness ==
    /\ last.op = "drop"
    /\ last.in.data.off > 0
    /\ last.a1 >= 1
    /\ last.a1 < last.in.len

\* x limited to lo..hi.
Clamp(x, lo, hi) == IF x < lo THEN lo ELSE IF x > hi THEN hi ELSE x

\* The cells view it covers lie inside the cells view v covers.
Inside(it, v) ==
    /\ it.data.buf = v.data.buf
    /\ it.elem_size = v.elem_size
    /\ it.data.off >= v.data.off
    /\ it.data.off + it.len * it.elem_size <= v.data.off + v.len * v.elem_size

\* slice yields the elements s+1..e of its input, none when e <= s, as a view
\* inside the input's range, allocating and copying nothing.
SliceIs(s, e) ==
    /\ heap = last.pre
    /\ Inside(last.out[1], last.in)
    /\ Out(1) = IF e <= s THEN <<>> ELSE SubSeq(In, s + 1, e)

\* C5 as claimed: slice limits start and end to [0, len] (a bound below 0
\* becomes 0, a bound above len becomes len).
C5_SliceClampsIntoZeroLen ==
    last.op = "slice" =>
        SliceIs(Clamp(last.a1, 0, last.in.len), Clamp(last.a2, 0, last.in.len))

\* A bound as iter_slice's unsigned comparison leaves it: itself when it is in
\* 0..len-1, and len otherwise (when it is above len, and when it is negative).
Capped(x, len) == IF x >= 0 /\ x < len THEN x ELSE len

\* C5: slice replaces each bound that is negative or above len by len, yields
\* the elements between the bounds (none when end <= start), never reaches
\* outside its input, and signals no error.
C5_SliceCapsAtLen ==
    last.op = "slice" =>
        SliceIs(Capped(last.a1, last.in.len), Capped(last.a2, last.in.len))

C5_Witness ==
    /\ last.op = "slice"
    /\ last.in.data.off > 0
    /\ last.a1 = 1
    /\ last.a2 = 2
    /\ last.in.len > 2
    /\ last.out[1].len = 1

\* C6: map(v, f) has as many elements as v, element i is f(v[i]), and f is
\* evaluated once per element in increasing index order.
C6_MapAppliesElementwise ==
    last.op = "map" =>
        /\ last.out[1].len = last.in.len
        /\ \A i \in 1..last.in.len : Out(1)[i] = ApplyF(last.fn, In[i])
        /\ last.evals = [i \in 1..last.in.len |-> i - 1]

C6_Witness ==
    /\ last.op = "map"
    /\ last.in.len >= 2
    /\ last.in.data.off > 0
    /\ Out(1)[1] # Out(1)[2]

\* C7: filter(v, p) is exactly the elements of v satisfying p, in their
\* original order, and its length is the number of such elements.
C7_FilterKeepsSatisfying ==
    last.op = "filter" =>
        /\ Out(1) = SelectSeq(In, LAMBDA x : Holds(last.fn, x))
        /\ last.out[1].len = Cardinality({i \in 1..last.in.len : Holds(last.fn, In[i])})
        /\ last.out[1].len \in 0..last.in.len

C7_Witness ==
    /\ last.op = "filter"
    /\ last.in.len = 2
    /\ last.out[1].len = 1
    /\ ~Holds(last.fn, In[1])

\* The number of positions of s holding e.
Count(s, e) == Cardinality({i \in DOMAIN s : s[i] = e})

\* C8: partition(v, p) puts each element of v in exactly one of yes (p holds)
\* and no (p fails), keeps the relative order in each, the two lengths add up
\* to len(v) and yes and no together hold v's elements as a multiset.
C8_PartitionSplits ==
    last.op = "partition" =>
        /\ Out(1) = SelectSeq(In, LAMBDA x : Holds(last.fn, x))
        /\ Out(2) = SelectSeq(In, LAMBDA x : ~Holds(last.fn, x))
        /\ last.out[1].len + last.out[2].len = last.in.len
        /\ \A e \in Range(In) \cup Range(Out(1)) \cup Range(Out(2)) :
              Count(Out(1), e) + Count(Out(2), e) = Count(In, e)

C8_Witness ==
    /\ last.op = "partition"
    /\ last.out[1].len >= 1
    /\ last.out[2].len >= 2

\* C9: reverse(v) has len(v) elements, element i is v[len-1-i], and reversing
\* the result again gives a view of the same length, elementwise equal to v.
C9_ReverseTwiceIsIdentity ==
    last.op = "reverse" =>
        /\ last.out[1].len = last.in.len
        /\ \A i \in 1..last.in.len : Out(1)[i] = In[last.in.len + 1 - i]
        /\ LET r == iter_reverse(heap, last.out[1])
           IN  /\ r.out[1].len = last.in.len
               /\ ViewSeq(r.heap, r.out[1]) = In

C9_Witness ==
    /\ last.op = "reverse"
    /\ last.in.len >= 2
    /\ Out(1) # In

\* The first position of s holding e.
FirstIndex(s, e) == CHOOSE i \in DOMAIN s : s[i] = e /\ \A j \in 1..(i - 1) : s[j] # e

\* C10: unique(v) has no two equal elements, holds every distinct value of v
\* once, in the order of first occurrence in v; unique([1,2,2,3,4]) is
\* [1,2,3,4].
C10_UniqueKeepsFirstOccurrences ==
    last.op = "unique" =>
        /\ \A a, b \in 1..last.out[1].len : a # b => Out(1)[a] # Out(1)[b]
        /\ Range(Out(1)) = Range(In)
        /\ \A a, b \in 1..last.out[1].len :
              a < b => FirstIndex(In, Out(1)[a]) < FirstIndex(In, Out(1)[b])
        /\ In = [i \in 1..5 |-> <<arr2[i]>>] =>
              Out(1) = << <<1>>, <<2>>, <<3>>, <<4>> >>

C10_Witness ==
    /\ last.op = "unique"
    /\ In = [i \in 1..5 |-> <<arr2[i]>>]
    /\ last.out[1].len = 4

\* The second input of the latest call as it was before the call.
In2 == ViewSeq(last.pre, last.in2)

\* C11: for views a and b of one element type, concat(a, b) has len(a) + len(b)
\* elements: those of a in order, then those of b in order.
C11_ConcatAppends ==
    last.op = "concat" =>
        /\ last.out[1].len = last.in.len + last.in2.len
        /\ last.out[1].elem_size = last.in.elem_size
        /\ Out(1) = In \o In2

C11_Witness ==
    /\ last.op = "concat"
    /\ last.in.len >= 2
    /\ last.in2.len >= 1
    /\ last.in2.len # last.in.len
    /\ last.in2.data.off > 0
    /\ In2[1] # In[1]

\* C12: for times >= 0, repeat(v, times) has len(v) * times elements, element
\* j is v[j mod len(v)], and repeat(v, 0) is an empty view that owns a buffer.
C12_RepeatCopies ==
    (last.op = "repeat" /\ last.a1 >= 0) =>
        /\ last.out[1].len = last.in.len * last.a1
        /\ last.out[1].elem_size = last.in.elem_size
        /\ \A j \in 0..(last.out[1].len - 1) : Out(1)[j + 1] = In[(j % last.in.len) + 1]
        /\ OwnsFresh(last.out[1], last.out[1].len)
        /\ last.a1 = 0 => Out(1) = <<>>

C12_Witness ==
    /\ last.op = "repeat"
    /\ last.a1 >= 2
    /\ last.in.len >= 2
    /\ In[1] # In[2]

\* C13: for newLen >= 0, pad(v, newLen, p) owns a buffer of exactly newLen
\* elements: the first newLen elements of v when newLen <= len(v), and all of
\* v followed by newLen - len(v) copies of p otherwise.
C13_PadToExactLength ==
    (last.op = "pad" /\ last.a1 >= 0) =>
        /\ last.out[1].len = last.a1
        /\ last.out[1].elem_size = last.in.elem_size
        /\ OwnsFresh(last.out[1], last.a1)
        /\ Out(1) = [i \in 1..last.a1 |-> IF i <= last.in.len THEN In[i] ELSE last.a2]

C13_Witness ==
    /\ last.op = "pad"
    /\ last.in.len >= 1
    /\ last.a1 >= last.in.len + 2
    /\ last.in.data.off > 0
    /\ In[last.in.len] # last.a2

\* The accumulator after the elements of s, in order, starting from acc.
RECURSIVE FoldLeft(_, _, _)
FoldLeft(s, acc, f) ==
    IF s = <<>> THEN acc ELSE FoldLeft(Tail(s), ApplyAcc(f, acc, Head(s)[1]), f)

Reversed(s) == [i \in 1..Len(s) |-> s[Len(s) + 1 - i]]

\* The indices 0..n-1 in increasing order.
Upto(n) == [i \in 1..n |-> i - 1]

\* C14: sum(v) equals foldLeft(v, 0, add); both accumulate over the indices
\* 0..n-1 in increasing order; on the empty view sum is 0 and foldLeft is init
\* with f never evaluated.
C14_SumIsFoldLeftOfAdd ==
    /\ last.op = "sum" =>
          /\ last.val = iter_foldl(last.pre, last.in, "int", 0, "add").val
          /\ last.val = FoldLeft(In, 0, "add")
          /\ last.in.len = 0 => last.val = 0
    /\ last.op = "foldl" =>
          /\ last.val = FoldLeft(In, last.a1, last.fn)
          /\ last.evals = Upto(last.in.len)
          /\ (last.fn = "add" /\ last.a1 = 0) =>
                last.val = iter_sum(last.pre, last.in, "int").val
          /\ last.in.len = 0 => (last.val = last.a1 /\ last.evals = <<>>)

C14_Witness ==
    /\ last.op = "sum"
    /\ last.in.len >= 2
    /\ last.in.data.off > 0
    /\ In[1] # <<0>>
    /\ last.val > In[1][1]

\* C15: foldRight(v, init, f) starts from init and updates the accumulator
\* once per element at indices n-1 down to 0, so it equals
\* foldLeft(reverse(v), init, f); on [10,20,30,40] with init 0 and x - acc it
\* is -20, and on the empty view it is init.
C15_FoldRightIsReverseFoldLeft ==
    last.op = "foldr" =>
        /\ last.evals = Reversed(Upto(last.in.len))
        /\ last.val = FoldLeft(Reversed(In), last.a1, last.fn)
        /\ LET r == iter_reverse(last.pre, last.in)
           IN  last.val = iter_foldl(r.heap, r.out[1], "int", last.a1, last.fn).val
        /\ (In = [i \in 1..4 |-> <<arr3[i]>>] /\ last.a1 = 0 /\ last.fn = "xsub") =>
              last.val = -20
        /\ last.in.len = 0 => (last.val = last.a1 /\ last.evals = <<>>)

C15_Witness ==
    /\ last.op = "foldr"
    /\ In = [i \in 1..4 |-> <<arr3[i]>>]
    /\ last.a1 = 0
    /\ last.fn = "xsub"
    /\ last.val = -20

\* C16: scan(v, init, f) has len(v) elements, element i is
\* foldLeft(v[0..i], init, f), so element 0 is f(init, v[0]); for non-empty v
\* the last element of scan(v, 0, add) is sum(v).
C16_ScanIsRunningFold ==
    last.op = "scan" =>
        /\ last.out[1].len = last.in.len
        /\ \A i \in 1..last.in.len :
              Out(1)[i] = <<FoldLeft(SubSeq(In, 1, i), last.a1, last.fn)>>
        /\ last.in.len >= 1 => Out(1)[1] = <<ApplyAcc(last.fn, last.a1, In[1][1])>>
        /\ (last.in.len >= 1 /\ last.a1 = 0 /\ last.fn = "add") =>
              Out(1)[last.in.len] = <<iter_sum(last.pre, last.in, "int").val>>

C16_Witness ==
    /\ last.op = "scan"
    /\ last.in.len >= 2
    /\ last.fn = "horner"
    /\ last.a1 = 1
    /\ Out(1)[2] # Out(1)[1]

\* The indices any/all evaluate the predicate at: up to and including the
\* first index where the predicate's value is stop, all of them if none is.
Decided(s, p, stop) ==
    LET hits == {i \in DOMAIN s : Holds(p, s[i]) = stop}
    IN  IF hits = {} THEN Upto(Len(s))
        ELSE Upto(CHOOSE i \in hits : \A j \in hits : i <= j)

\* C17: any(v, p) is true iff some element satisfies p and all(v, p) iff every
\* element does; both evaluate p in increasing index order and stop at the
\* first deciding element; on the empty view any is false and all is true.
C17_AnyAllShortCircuit ==
    /\ last.op = "any" =>
          /\ (last.val = 1) <=> (\E i \in DOMAIN In : Holds(last.fn, In[i]))
          /\ last.val \in {0, 1}
          /\ last.evals = Decided(In, last.fn, TRUE)
          /\ last.in.len = 0 => last.val = 0
    /\ last.op = "all" =>
          /\ (last.val = 1) <=> (\A i \in DOMAIN In : Holds(last.fn, In[i]))
          /\ last.val \in {0, 1}
          /\ last.evals = Decided(In, last.fn, FALSE)
          /\ last.in.len = 0 => last.val = 1

C17_Witness ==
    /\ last.op = "any"
    /\ last.in.len >= 2
    /\ last.val = 1
    /\ Len(last.evals) = 1

\* C18: zip(a, b) has min(len(a), len(b)) elements, element i is the pair
\* (a[i], b[i]); what the longer view has beyond that is left out, with no
\* error.
C18_ZipPairsUp ==
    last.op = "zip" =>
        /\ last.out[1].len = Min(last.in.len, last.in2.len)
        /\ \A i \in 1..last.out[1].len : Out(1)[i] = In[i] \o In2[i]
        /\ Len(Out(1)) = last.out[1].len
        /\ ~last.fault

C18_Witness ==
    /\ last.op = "zip"
    /\ last.in.len >= 2
    /\ last.in2.len >= 1
    /\ last.in2.len < last.in.len
    /\ In[1] # In2[1]

\* The inner views of the latest call's input, in outer order.
Inners == [i \in 1..last.in.len |-> InnerAt(last.pre, last.in, "Iterator", i - 1)]

\* The sequences of ss one after the other.
RECURSIVE ConcatAll(_)
ConcatAll(ss) == IF ss = <<>> THEN <<>> ELSE Head(ss) \o ConcatAll(Tail(ss))

RECURSIVE SumAll(_)
SumAll(ns) == IF ns = <<>> THEN 0 ELSE Head(ns) + SumAll(Tail(ns))

\* C19: flatten of a view of views of one element type is the inner views'
\* elements one inner view after the other, in outer order and in each inner
\* view's order; its length is the sum of the inner lengths, so empty inner
\* views add nothing.
C19_FlattenConcatenatesInners ==
    last.op = "flatten" =>
        /\ Out(1) = ConcatAll([i \in 1..last.in.len |-> ViewSeq(last.pre, Inners[i])])
        /\ last.out[1].len = SumAll([i \in 1..last.in.len |-> Inners[i].len])
        /\ last.out[1].elem_size = sizeof(last.type)

C19_Witness ==
    /\ last.op = "flatten"
    /\ last.in.len = 2
    /\ Inners[1].len >= 2
    /\ Inners[2].len >= 1
    /\ Inners[2].data.off > 0
    /\ ViewSeq(last.pre, Inners[1])[1] # ViewSeq(last.pre, Inners[2])[1]

\* C20: for all ints start and end, range(start, end) has max(0, end - start)
\* elements, element i is start + i, the view is empty and owns its buffer
\* when end <= start, range(5, 10) is [5,6,7,8,9] and range(5, 5) is empty.
C20_RangeCountsUp ==
    last.op = "range" =>
        /\ ~last.fault
        /\ last.out[1].len = (IF last.a2 > last.a1 THEN last.a2 - last.a1 ELSE 0)
        /\ Out(1) = [i \in 1..last.out[1].len |-> <<last.a1 + i - 1>>]
        /\ OwnsFresh(last.out[1], last.out[1].len)
        /\ (last.a1 = 5 /\ last.a2 = 10) => Out(1) = << <<5>>, <<6>>, <<7>>, <<8>>, <<9>> >>
        /\ last.a2 <= last.a1 => Out(1) = <<>>

\* C21: forEach(v, f) runs f once per element of v, in increasing index
\* order, on that element, and yields a view with v's data pointer, length and
\* element size; then(v, action) runs action once and yields v likewise.
C21_ForEachThenYieldInput ==
    /\ last.op = "for" =>
          /\ last.evals = Upto(last.in.len)
          /\ last.val = In
          /\ last.out = <<last.in>>
          /\ heap = last.pre
    /\ last.op = "then" =>
          /\ Len(last.evals) = 1
          /\ last.out = <<last.in>>
          /\ heap = last.pre

C21_Witness ==
    /\ last.op = "for"
    /\ last.in.len >= 2
    /\ last.in.data.off > 0
    /\ last.val[1] # last.val[2]

\* The steps of example.c's Iterator Test 2 with their arguments.
ExampleTrace ==
    << [op |-> "repeat", a1 |-> 2, a2 |-> 0], [op |-> "concat", a1 |-> 0, a2 |-> 0],
       [op |-> "reverse", a1 |-> 0, a2 |-> 0], [op |-> "unique", a1 |-> 0, a2 |-> 0],
       [op |-> "pad", a1 |-> 10, a2 |-> 99], [op |-> "slice", a1 |-> 2, a2 |-> 7] >>

\* The run is (a prefix of) the example's: arr2 and the example's arguments.
OnExampleTrace ==
    /\ heap[1].cells = arr2
    /\ ncalls >= 1
    /\ \A i \in 1..ncalls :
          /\ last.trace[i].op = ExampleTrace[i].op
          /\ last.trace[i].a1 = ExampleTrace[i].a1
          /\ last.trace[i].a2 = ExampleTrace[i].a2

\* C22: from [1,2,2,3,4], repeat(_, 2), concat(_, original), reverse, unique,
\* pad(_, 10, 99), slice(_, 2, 7), each applied to the previous result, yield
\* views of 10, 15, 15, 4, 10 and finally exactly 5 elements: [2,1,99,99,99].
C22_ExampleEndsInFiveElements ==
    OnExampleTrace =>
        /\ \A i \in 1..ncalls : last.trace[i].len = <<10, 15, 15, 4, 10, 5>>[i]
        /\ ncalls = 6 =>
              /\ cur[1].len = 5
              /\ ViewSeq(heap, cur[1]) = << <<2>>, <<1>>, <<99>>, <<99>>, <<99>> >>

C22_Witness ==
    /\ OnExampleTrace
    /\ ncalls = 6
    /\ last.op = "slice"
    /\ cur[1].len = 5

\* The macros that allocate one buffer per call.
OneBuffer ==
    {"map", "filter", "reverse", "unique", "concat", "pad", "repeat", "zip",
     "flatten", "scan", "range"}

\* The macros that allocate none.
NoBuffer == {"take", "drop", "slice", "for", "then", "sum", "foldl", "foldr", "any", "all"}

\* The buffers the latest call obtained from malloc.
NewBuffers == {b \in (Len(last.pre) + 1)..Len(heap) : heap[b].kind = "malloc"}

\* C23: no call releases a buffer: every buffer there was before a call is
\* there after it, as it was allocated; map, filter, reverse, unique, concat,
\* pad, repeat, zip, flatten, scan and range add one buffer per call, partition
\* two, take, drop, slice, forEach and then none; and after t = op(t) with an
\* allocating op, the buffer t owned before is still allocated and no view
\* the program holds points into it.
C23_BuffersOnlyAccumulate ==
    last.op # "none" =>
        /\ Len(heap) >= Len(last.pre)
        /\ \A b \in 1..Len(last.pre) :
              /\ heap[b].kind = last.pre[b].kind
              /\ heap[b].cap = last.pre[b].cap
        /\ last.op \in OneBuffer => Cardinality(NewBuffers) = 1
        /\ last.op = "partition" => Cardinality(NewBuffers) = 2
        /\ last.op \in NoBuffer => (NewBuffers = {} /\ heap = last.pre)
        /\ last.op \in OneBuffer \cup NoBuffer \cup {"partition"}
        /\ (last.op \in OneBuffer \cup {"partition"}
              /\ last.pre[last.in.data.buf].kind = "malloc") =>
                 /\ heap[last.in.data.buf].kind = "malloc"
                 /\ \A k \in DOMAIN cur : cur[k].data.buf # last.in.data.buf

C23_Witness ==
    /\ last.op = "concat"
    /\ last.pre[last.in.data.buf].kind = "malloc"
    /\ last.in.len >= 2
    /\ Cardinality({b \in DOMAIN heap : heap[b].kind = "malloc"}) = 2
    /\ cur[1].data.buf = Len(heap)

\* C24: a call leaves every buffer that existed before it as it was, so every
\* view held before the call has the same elements, length and element size
\* after it; and each view an allocating call yields lies in a buffer the call
\* allocated, apart from all its inputs' buffers.
C24_InputsUntouched ==
    last.op # "none" =>
        /\ \A b \in 1..Len(last.pre) : heap[b] = last.pre[b]
        /\ ViewSeq(heap, last.in) = ViewSeq(last.pre, last.in)
        /\ ViewSeq(heap, last.in2) = ViewSeq(last.pre, last.in2)
        /\ last.op \in OneBuffer \cup {"partition"} =>
              \A k \in DOMAIN last.out :
                  /\ last.out[k].data.buf \in NewBuffers
                  /\ last.out[k].data.buf \notin {last.in.data.buf, last.in2.data.buf}

C24_Witness ==
    /\ last.op = "reverse"
    /\ last.pre[last.in.data.buf].kind = "malloc"
    /\ last.in.len >= 2
    /\ Out(1) # In

\* The range acc lies within the len * elem_size cells view v covers.
WithinView(acc, v) ==
    /\ acc.p.buf = v.data.buf
    /\ acc.p.off >= v.data.off
    /\ acc.p.off + acc.n <= v.data.off + v.len * v.elem_size

\* The range acc lies within a buffer the latest call allocated.
WithinNew(acc) ==
    /\ acc.p.buf \in NewBuffers
    /\ acc.p.off >= 0
    /\ acc.p.off + acc.n <= heap[acc.p.buf].cap

\* C25: whatever element type a call names and whatever the element sizes of
\* the views it is given, forEach and concat read only within their input
\* views' len * elem_size cells and write only within the buffer the call
\* allocated.
C25_AccessesInBounds ==
    last.op \in {"for", "concat"} =>
        /\ \A i \in DOMAIN last.reads :
              WithinView(last.reads[i], last.in) \/ WithinView(last.reads[i], last.in2)
        /\ \A i \in DOMAIN last.writes : WithinNew(last.writes[i])


\* The value of the variable argument expression e reads, in heap h.
VarOf(h, e) == Load(h, e.var, 1)[1]

\* What the latest call returns when its arguments are the values the
\* argument expressions had before the call.
OnValues ==
    LET a(k) == VarOf(last.pre, last.args[k])
    IN  CASE last.op = "take"  -> iter_take(last.pre, last.in, a(1)).out
          [] last.op = "drop"  -> iter_drop(last.pre, last.in, a(1)).out
          [] last.op = "slice" -> iter_slice(last.pre, last.in, a(1), a(2)).out
          [] OTHER -> last.out

\* C26: every macro evaluates each bound argument (n, start, end, newlen,
\* times, init, padval) exactly once per call: the evaluation count of each
\* argument is 1, an argument i++ leaves i increased by one, and take, drop
\* and slice return the view for the value the argument had before the call.
C26_ArgsEvaluatedOnce ==
    "argn" \in DOMAIN last =>
        /\ \A k \in DOMAIN last.argn :
              /\ last.argn[k] = 1
              /\ VarOf(heap, last.args[k]) = VarOf(last.pre, last.args[k]) + last.args[k].inc
        /\ last.out = OnValues

====
